---- MODULE Spec2Model ----
(***************************************************************************)
(* Model of the cf-slot-app client pages (public/js/booking.js,            *)
(* attendance.js, my-day.js), the helpers they use (public/js/ui.js,       *)
(* public/js/api.js) and the proxy handlers (server.js, api/*.js).         *)
(*                                                                         *)
(* Encodings                                                               *)
(*   - a time string "HH:MM" is the integer HH*100+MM ("08:30" is 830);    *)
(*     the zero padded strings compare lexicographically exactly as these  *)
(*     integers compare numerically.  "" is EMPTY and null is NULL.        *)
(*   - a name such as "Asha - DOP" is the sequence of its characters.      *)
(*   - a JavaScript Set is a set (insertion order is not modelled).        *)
(*   - setTimeout handles are positive integers; a pending timer is a      *)
(*     record [id, cb, delay] in the set timers.                           *)
(***************************************************************************)
EXTENDS Integers, Sequences, FiniteSets, TLC

VARIABLES
    bookingState,             \* booking.js:11-25
    bookingSubmitInFlight,    \* booking.js:27
    employeeSelectionTimeout, \* booking.js:28
    dom,                      \* the page elements booking.js reads and writes
    timers,                   \* pending setTimeout callbacks of the page
    net,                      \* requests awaiting their response
    lastEvent,                \* history: the handler that ran last
    requestIds,               \* history: the request_id of every booking_submit sent
    attendanceState,          \* attendance.js:28-33
    cards,                    \* attendance.js: the date cards of the page
    localStorage,             \* my-day.js: the freedBookings entry
    myDay,                    \* my-day.js: the booking cards of the page
    proxy,                    \* the request a proxy handler served last
    call,                     \* the pure function applied last, its input and output
    config                    \* config.js:6 and the callers of getConfig

\* the state outside the booking page
otherPages == <<attendanceState, cards, localStorage, myDay, proxy, call, config>>

vars == <<bookingState, bookingSubmitInFlight, employeeSelectionTimeout,
          dom, timers, net, lastEvent, requestIds, otherPages>>

----------------------------------------------------------------------------
(* Values *)

NULL == 0 - 2
EMPTY == 0 - 1

\* if (x) on a string-or-null or handle-or-null value
Truthy(x) == x # NULL /\ x # EMPTY

\* Bounds of the checked instance
MaxOffset == 1
MaxLockInFlight == 1
MaxTimers == 1

\* Inputs of the checked instance
TimeChoices == {800, 830}
NowChoices == {745}
TextChoices == {<<>>, <<"P">>}
ShootNameChoices == {<<>>, <<"P">>}

UserName == <<"A", "s", "h", "a">>
AshaCreator == <<"A", "s", "h", "a", " ", "-", " ", "C">>
RaviDop == <<"R", "a", "v", "i", " ", "-", " ", "D", "O", "P">>
AshaDop == <<"A", "s", "h", "a", " ", "-", " ", "D", "O", "P">>

----------------------------------------------------------------------------
(* String helpers (String.prototype methods used by booking.js) *)

ToLowerChar(c) ==
    CASE c = "A" -> "a"
      [] c = "C" -> "c"
      [] c = "D" -> "d"
      [] c = "G" -> "g"
      [] c = "H" -> "h"
      [] c = "M" -> "m"
      [] c = "O" -> "o"
      [] c = "P" -> "p"
      [] c = "R" -> "r"
      [] c = "S" -> "s"
      [] c = "T" -> "t"
      [] c = "Z" -> "z"
      [] OTHER -> c

ToLowerCase(s) == [i \in 1..Len(s) |-> ToLowerChar(s[i])]

RECURSIVE TrimStart(_)
TrimStart(s) ==
    IF s # <<>> /\ Head(s) = " " THEN TrimStart(Tail(s)) ELSE s

RECURSIVE TrimEnd(_)
TrimEnd(s) ==
    IF s # <<>> /\ s[Len(s)] = " " THEN TrimEnd(SubSeq(s, 1, Len(s) - 1)) ELSE s

Trim(s) == TrimEnd(TrimStart(s))

StartsWith(s, p) == Len(p) <= Len(s) /\ SubSeq(s, 1, Len(p)) = p

Includes(s, sub) ==
    \E i \in 1..(Len(s) + 1) :
        i + Len(sub) - 1 <= Len(s) /\ SubSeq(s, i, i + Len(sub) - 1) = sub

SeqToSet(s) == {s[i] : i \in 1..Len(s)}

RECURSIVE Filter(_, _)
Filter(s, sub) ==
    IF s = <<>> THEN <<>>
    ELSE IF Includes(Head(s), sub) THEN <<Head(s)>> \o Filter(Tail(s), sub)
         ELSE Filter(Tail(s), sub)

----------------------------------------------------------------------------
(* ui.js *)

\* UI.getTimeDuration
GetTimeDuration(fromTime, toTime) ==
    IF ~Truthy(fromTime) \/ ~Truthy(toTime) THEN 0
    ELSE LET fh == fromTime \div 100
             fm == fromTime % 100
             th == toTime \div 100
             tm == toTime % 100
             fromMinutes == fh * 60 + fm
             toMinutes == th * 60 + tm
         IN  toMinutes - fromMinutes

\* variant: a duration of exactly 30 minutes is refused
ValidateTimeSelectionStrict(fromTime, toTime) ==
    IF ~Truthy(fromTime) \/ ~Truthy(toTime) THEN FALSE
    ELSE LET duration == GetTimeDuration(fromTime, toTime)
         IN  IF duration <= 30 THEN FALSE
             ELSE IF duration > 30 * 60 THEN FALSE
             ELSE TRUE

\* UI.validateTimeSelection(...).valid
ValidateTimeSelection(fromTime, toTime) ==
    IF ~Truthy(fromTime) \/ ~Truthy(toTime) THEN FALSE
    ELSE LET duration == GetTimeDuration(fromTime, toTime)
         IN  IF duration < 30 THEN FALSE
             ELSE IF duration > 30 * 60 THEN FALSE
             ELSE TRUE

\* UI.dateKeyForOffset: the calendar day offset days after the page's today
TodayKey == 20261105
DateKeyForOffset(offset) == TodayKey + offset

\* parseInt of a text of decimal digits (NaN is NULL)
DigitValue(c) ==
    CASE c = "0" -> 0 [] c = "1" -> 1 [] c = "2" -> 2 [] c = "3" -> 3
      [] c = "4" -> 4 [] c = "5" -> 5 [] c = "6" -> 6 [] c = "7" -> 7
      [] c = "8" -> 8 [] c = "9" -> 9 [] OTHER -> NULL

RECURSIVE ParseDigits(_, _)
ParseDigits(s, acc) ==
    IF s = <<>> \/ DigitValue(Head(s)) = NULL THEN acc
    ELSE ParseDigits(Tail(s), acc * 10 + DigitValue(Head(s)))

ParseInt(s) ==
    LET t == TrimStart(s)
    IN  IF t = <<>> \/ DigitValue(Head(t)) = NULL THEN NULL
        ELSE ParseDigits(t, 0)

----------------------------------------------------------------------------
(* booking.js: page state *)

\* generateTimeOptions: 08:00, 08:30, ..., 23:30, 00:00, ..., 07:30
AllTimes == {(h % 24) * 100 + m : h \in 8..31, m \in {0, 30}}

\* bookingState as declared
InitialBookingState ==
    [selectedDateOffset |-> NULL,
     selectedDateKey    |-> NULL,
     fromTime           |-> NULL,
     toTime             |-> NULL,
     isLocked           |-> FALSE,
     dopList            |-> <<>>,
     castList           |-> <<>>,
     selectedDops       |-> {},
     selectedCast       |-> {},
     brandOrIp          |-> "brand"]

\* booking.html as first rendered, after generateTimeOptions
InitialDom ==
    [fromTime            |-> EMPTY,
     toTime              |-> EMPTY,
     timeOptions         |-> AllTimes,
     shootName           |-> <<>>,
     brand               |-> <<>>,
     ip                  |-> <<>>,
     noOfShoot           |-> <<>>,
     location            |-> <<>>,
     lockBtnDisabled     |-> TRUE,
     submitBtnDisabled   |-> TRUE,
     submitSectionHidden |-> TRUE,
     dopBoxes            |-> <<>>,
     castBoxes           |-> <<>>]

\* The page after (re)load
PageLoad(event) ==
    /\ bookingState = InitialBookingState
    /\ bookingSubmitInFlight = FALSE
    /\ employeeSelectionTimeout = NULL
    /\ dom = InitialDom
    /\ timers = {}
    /\ net = <<>>
    /\ lastEvent = event

\* attendance.js:28-33, before loadExistingAttendance ran: no date has a
\* record, a selection or a shoot, and no card is rendered
InitialAttendanceState ==
    [records |-> <<>>, existingRecords |-> <<>>, shoots |-> <<>>,
     userName |-> <<>>]

\* localStorage of a client that never freed a booking: getFreedBookings
\* reads the missing freedBookings item as the empty object
InitialLocalStorage ==
    [freedBookings |-> <<>>,
     cf_user |-> <<[email |-> "asha@cf.in", name |-> "Asha",
                    role |-> "creator"]>>]

\* window.editState of my-day.js when it is null
NoEditState ==
    [set |-> FALSE, bookingId |-> "",
     originalDops |-> <<>>, originalCast |-> <<>>,
     selectedDops |-> <<>>, selectedCast |-> <<>>,
     availableDops |-> <<>>, availableCast |-> <<>>]

\* my-day.js before its first load: no booking card is rendered, the error
\* line myBookingsError is empty and the container shows no placeholder
InitialMyDay ==
    [loaded |-> FALSE, bookingCards |-> <<>>, succeeded |-> {},
     listError |-> FALSE, placeholder |-> "",
     deleteModal |-> [open |-> FALSE, bookingId |-> "", reason |-> <<>>],
     freeModal |-> [open |-> FALSE, bookingId |-> ""],
     editModal |-> [open |-> FALSE, bookingId |-> "", rendered |-> FALSE],
     editState |-> NoEditState]

\* the modules of a page that read the configuration
ConfigCallers == {"brandip-api.js", "creators-api.js", "my-day.js"}

\* config.js as loaded: CONFIG is null, no caller waits for /api/config;
\* requests and successful count the fetches made and those answered with
\* the configuration, lastCall tells how the last loadConfig began
InitialConfig ==
    [CONFIG |-> FALSE, waiting |-> {}, requests |-> 0, successful |-> 0,
     answers |-> [c \in ConfigCallers |-> "none"],
     lastCall |-> [caller |-> "", cached |-> FALSE, fetched |-> FALSE]]

\* no proxy handler has served a request
NoProxyCall ==
    [handler |-> "none", request |-> [path |-> "none"], env |-> NULL,
     forwarded |-> <<>>,
     upstream |-> NULL, status |-> 0, body |-> NULL]

\* no function has been applied to input
NoCall(input) == [fn |-> "none", input |-> input, output |-> NULL]

\* every page as first loaded, with the proxy and call as given
InitWith(p, c) ==
    /\ PageLoad([type |-> "load", request |-> [action |-> "none"],
                 response |-> [shape |-> "none", key |-> "", name |-> <<>>],
                 shown |-> "", wasLocked |-> FALSE])
    /\ requestIds = <<>>
    /\ attendanceState = InitialAttendanceState
    /\ cards = <<>>
    /\ localStorage = InitialLocalStorage
    /\ myDay = InitialMyDay
    /\ proxy = p
    /\ call = c
    /\ config = InitialConfig

Init == InitWith(NoProxyCall, NoCall(NULL))

NoResponse == [shape |-> "none", key |-> "", name |-> <<>>]

NoRequest == [action |-> "none"]

\* history of the handler that ran last: the request it sent, the response
\* it handled and the message it put in lockError or submitError
Event(type) ==
    [type |-> type, request |-> NoRequest, response |-> NoResponse, shown |-> "",
     wasLocked |-> bookingState.isLocked]
Sent(type, request) ==
    [type |-> type, request |-> request, response |-> NoResponse, shown |-> "",
     wasLocked |-> bookingState.isLocked]
Handled(type, response, shown) ==
    [type |-> type, request |-> NoRequest, response |-> response, shown |-> shown,
     wasLocked |-> bookingState.isLocked]

----------------------------------------------------------------------------
(* setTimeout / clearTimeout *)

TimerIds(ts) == {t.id : t \in ts}

\* a handle no pending timer and no stored handle uses
NewTimerId(ts, handle) ==
    CHOOSE i \in 1..(Cardinality(ts) + 2) :
        /\ i \notin TimerIds(ts)
        /\ i # handle
        /\ \A j \in 1..(i - 1) : j \in TimerIds(ts) \/ j = handle

SetTimeout(ts, id, cb, delay) == ts \cup {[id |-> id, cb |-> cb, delay |-> delay]}

ClearTimeout(ts, id) == {t \in ts : t.id # id}

TimersOf(ts, cb) == {t \in ts : t.cb = cb}

----------------------------------------------------------------------------
(* booking.js: button state *)

\* updateLockButtonState
UpdateLockButtonState(bs, d) ==
    LET hasValidSelection ==
            /\ bs.selectedDateOffset # NULL
            /\ Truthy(bs.fromTime)
            /\ Truthy(bs.toTime)
    IN  [d EXCEPT !.lockBtnDisabled =
            IF hasValidSelection
            THEN ~ValidateTimeSelection(bs.fromTime, bs.toTime)
            ELSE TRUE]

HasRequiredFields(d) ==
    /\ Trim(d.shootName) # <<>>
    /\ (Trim(d.brand) # <<>> \/ Trim(d.ip) # <<>>)
    /\ d.noOfShoot # <<>>
    /\ d.location # <<>>

\* updateSubmitButtonState
UpdateSubmitButtonState(bs, d) ==
    LET hasCastSelected == bs.selectedCast # {}
    IN  [d EXCEPT !.submitBtnDisabled = ~HasRequiredFields(d) \/ ~hasCastSelected]

\* renderDopCheckboxes: one unchecked box per entry of dopList
RenderDopCheckboxes(bs, d) ==
    [d EXCEPT !.dopBoxes = [n \in SeqToSet(bs.dopList) |-> FALSE]]

\* renderCastCheckboxes: one unchecked box per entry of castList, disabled
\* when the entry is a selected DOP; returns early on an empty list
RenderCastCheckboxes(bs, d) ==
    IF bs.castList = <<>>
    THEN [d EXCEPT !.castBoxes = <<>>]
    ELSE UpdateSubmitButtonState(bs,
            [d EXCEPT !.castBoxes =
                [n \in SeqToSet(bs.castList) |->
                    [checked |-> FALSE, disabled |-> n \in bs.selectedDops]]])


----------------------------------------------------------------------------
(* booking.js: lock reset and form reset *)

\* resetLock: the bookingState part
ResetLockState(bs) ==
    [bs EXCEPT !.isLocked = FALSE,
               !.dopList = <<>>,
               !.castList = <<>>,
               !.selectedDops = {},
               !.selectedCast = {}]

\* variant: resetLock forgets the handle without clearing its timer
ResetLockTimersKept(ts, handle) == ts

\* resetLock: if (employeeSelectionTimeout) clearTimeout(...)
ResetLockTimers(ts, handle) ==
    IF Truthy(handle) THEN ClearTimeout(ts, handle) ELSE ts

\* resetLock: ... employeeSelectionTimeout = null
ResetLockHandle(handle) ==
    IF Truthy(handle) THEN NULL ELSE handle

\* resetLock: the page part
ResetLockDom(d) ==
    [d EXCEPT !.dopBoxes = <<>>,
              !.castBoxes = <<>>,
              !.submitSectionHidden = TRUE]

\* populateTimeSelects: rebuilding the options leaves both selects on ""
PopulateTimeSelects(d, times) ==
    [d EXCEPT !.timeOptions = times, !.fromTime = EMPTY, !.toTime = EMPTY]

\* resetBookingForm: the bookingState part
ResetBookingFormState(bs) ==
    ResetLockState([bs EXCEPT !.selectedDateOffset = NULL,
                              !.selectedDateKey = NULL,
                              !.fromTime = NULL,
                              !.toTime = NULL])

\* resetBookingForm: the page part
ResetBookingFormDom(bs, d) ==
    LET cleared == [ResetLockDom(d) EXCEPT !.shootName = <<>>,
                                           !.brand = <<>>,
                                           !.ip = <<>>,
                                           !.noOfShoot = <<>>,
                                           !.location = <<>>]
        bs2 == ResetBookingFormState(bs)
    IN  UpdateSubmitButtonState(bs2,
            UpdateLockButtonState(bs2, PopulateTimeSelects(cleared, AllTimes)))

----------------------------------------------------------------------------
(* booking.js: date and time selection *)

\* selectDate: "round up to next 30-minute interval"
FilterTime(now) ==
    LET hours == now \div 100
        minutes == now % 100
    IN  IF minutes <= 30 THEN hours * 100 + 30
        ELSE ((hours + 1) % 24) * 100

\* selectDate: the times offered for the chosen day
AvailableTimes(offset, now) ==
    IF offset = 0 THEN {t \in AllTimes : t >= FilterTime(now)} ELSE AllTimes

\* selectDate(offset), clicked when the clock reads now
SelectDate(offset, now) ==
    LET bs1 == [bookingState EXCEPT !.selectedDateOffset = offset,
                                    !.selectedDateKey = DateKeyForOffset(offset)]
        d1  == PopulateTimeSelects(dom, AvailableTimes(offset, now))
        bs2 == IF bs1.isLocked THEN ResetLockState(bs1) ELSE bs1
        d2  == IF bs1.isLocked THEN ResetLockDom(d1) ELSE d1
    IN  /\ bookingState' = bs2
        /\ dom' = UpdateLockButtonState(bs2, d2)
        /\ timers' = IF bs1.isLocked
                     THEN ResetLockTimers(timers, employeeSelectionTimeout)
                     ELSE timers
        /\ employeeSelectionTimeout' =
                IF bs1.isLocked THEN ResetLockHandle(employeeSelectionTimeout)
                ELSE employeeSelectionTimeout
        /\ lastEvent' = Event("selectDate")
        /\ UNCHANGED <<bookingSubmitInFlight, net>>
        /\ UNCHANGED <<requestIds, otherPages>>

\* updateTimeSelection, run by the change event of either time select
UpdateTimeSelection(d1) ==
    LET bs1 == [bookingState EXCEPT !.fromTime = d1.fromTime,
                                    !.toTime = d1.toTime]
        bs2 == IF bs1.isLocked THEN ResetLockState(bs1) ELSE bs1
        d2  == IF bs1.isLocked THEN ResetLockDom(d1) ELSE d1
    IN  /\ bookingState' = bs2
        /\ dom' = UpdateLockButtonState(bs2, d2)
        /\ timers' = IF bs1.isLocked
                     THEN ResetLockTimers(timers, employeeSelectionTimeout)
                     ELSE timers
        /\ employeeSelectionTimeout' =
                IF bs1.isLocked THEN ResetLockHandle(employeeSelectionTimeout)
                ELSE employeeSelectionTimeout
        /\ lastEvent' = Event("updateTimeSelection")
        /\ UNCHANGED <<bookingSubmitInFlight, net>>
        /\ UNCHANGED <<requestIds, otherPages>>

\* the values a time select offers
SelectableTimes == (dom.timeOptions \cap TimeChoices) \cup {EMPTY}

\* the user picks another start time
ChangeFromTime(t) ==
    /\ t \in SelectableTimes
    /\ t # dom.fromTime
    /\ UpdateTimeSelection([dom EXCEPT !.fromTime = t])

\* the user picks another end time
ChangeToTime(t) ==
    /\ t \in SelectableTimes
    /\ t # dom.toTime
    /\ UpdateTimeSelection([dom EXCEPT !.toTime = t])

----------------------------------------------------------------------------
(* booking.js: booking details *)

\* toggleBrandIp: shows one select and clears the other
ToggleBrandIp(option) ==
    /\ bookingState' = [bookingState EXCEPT !.brandOrIp = option]
    /\ dom' = IF option = "brand" THEN [dom EXCEPT !.ip = <<>>]
              ELSE [dom EXCEPT !.brand = <<>>]
    /\ lastEvent' = Event("toggleBrandIp")
    /\ UNCHANGED <<bookingSubmitInFlight, employeeSelectionTimeout, timers, net>>
    /\ UNCHANGED <<requestIds, otherPages>>

\* change/input listeners on the detail fields: updateSubmitButtonState
EditField(field, value) ==
    /\ dom[field] # value
    /\ field = "brand" => bookingState.brandOrIp = "brand"
    /\ field = "ip" => bookingState.brandOrIp = "ip"
    /\ dom' = UpdateSubmitButtonState(bookingState, [dom EXCEPT ![field] = value])
    /\ lastEvent' = Event("editField")
    /\ UNCHANGED <<bookingState, bookingSubmitInFlight, employeeSelectionTimeout,
                   timers, net>>
    /\ UNCHANGED <<requestIds, otherPages>>

\* change listener of a DOP checkbox
ToggleDop(name) ==
    /\ name \in DOMAIN dom.dopBoxes
    /\ LET checked == ~dom.dopBoxes[name]
           bs1 == [bookingState EXCEPT !.selectedDops =
                       IF checked THEN @ \cup {name} ELSE @ \ {name}]
           d1 == [dom EXCEPT !.dopBoxes[name] = checked]
       IN  /\ bookingState' = bs1
           /\ dom' = UpdateSubmitButtonState(bs1, RenderCastCheckboxes(bs1, d1))
    /\ lastEvent' = Event("toggleDop")
    /\ UNCHANGED <<bookingSubmitInFlight, employeeSelectionTimeout, timers, net>>
    /\ UNCHANGED <<requestIds, otherPages>>

\* change listener of a cast checkbox (a disabled box cannot be clicked)
ToggleCast(name) ==
    /\ name \in DOMAIN dom.castBoxes
    /\ ~dom.castBoxes[name].disabled
    /\ LET checked == ~dom.castBoxes[name].checked
           bs1 == [bookingState EXCEPT !.selectedCast =
                       IF checked THEN @ \cup {name} ELSE @ \ {name}]
           d1 == [dom EXCEPT !.castBoxes[name].checked = checked]
       IN  /\ bookingState' = bs1
           /\ dom' = UpdateSubmitButtonState(bs1, d1)
    /\ lastEvent' = Event("toggleCast")
    /\ UNCHANGED <<bookingSubmitInFlight, employeeSelectionTimeout, timers, net>>
    /\ UNCHANGED <<requestIds, otherPages>>


----------------------------------------------------------------------------
(* api.js and the upstream *)

\* What API.postToN8n can return for booking_lock:
\*   key   {key: "Ongoing Booking"}
\*   obj   {name: [...]}
\*   arr   [{name: [...]}]
\*   bare  [...]
\*   msg   {message: text}  (a body that is not JSON)
LockResponses ==
    {[shape |-> "key", key |-> "Ongoing Booking", name |-> <<>>],
     [shape |-> "msg", key |-> "", name |-> <<>>]}
    \cup {[shape |-> sh, key |-> "", name |-> r] :
            sh \in {"obj", "arr"},
            r \in {<<>>, <<RaviDop>>, <<AshaCreator, RaviDop>>}}
    \cup {[shape |-> "bare", key |-> "", name |-> <<AshaCreator, RaviDop>>]}

\* What API.postToN8n throws: fetchWithTimeout's timeout or network error,
\* or "HTTP <status>" for a non-2xx answer
ApiErrors == {"Request timed out"}

ConflictMessage == "someone else is booking try after 90 sec"
AlreadyBookedMessage == "Your Already Booked for this slot."

InactivityDelay == 90000
ConflictReloadDelay == 90000
SuccessDisplayDelay == 3000

----------------------------------------------------------------------------
(* booking.js: lockDateAndTime *)

LockRequests == {i \in 1..Len(net) : net[i].action = "booking_lock"}
SubmitRequests == {i \in 1..Len(net) : net[i].action = "booking_submit"}

RemoveAt(q, i) == SubSeq(q, 1, i - 1) \o SubSeq(q, i + 1, Len(q))

\* variant: the key is compared with another spelling
IsOngoingBookingWrongCase(response) == response.key = "ongoing booking"

\* response?.key === "Ongoing Booking"
IsOngoingBooking(response) == response.key = "Ongoing Booking"

\* the name list taken from the response
NamesArray(response) ==
    IF response.shape = "obj" THEN response.name
    ELSE IF response.shape = "arr" THEN response.name
    ELSE <<>>

\* variant: an entry matches only when it equals the name
IsInListExact(namesArray, userName) ==
    LET currentNameLower == ToLowerCase(Trim(userName))
    IN  /\ Trim(userName) # <<>>
        /\ \E k \in 1..Len(namesArray) :
              ToLowerCase(Trim(namesArray[k])) = currentNameLower

\* is the current user in the list ("Name - Role" entries)
IsInList(namesArray, userName) ==
    LET currentName == Trim(userName)
        currentNameLower == ToLowerCase(currentName)
    IN  /\ currentName # <<>>
        /\ \E k \in 1..Len(namesArray) :
              LET sLower == ToLowerCase(Trim(namesArray[k]))
              IN  \/ sLower = currentNameLower
                  \/ StartsWith(sLower, currentNameLower \o <<" ", "-">>)
                  \/ StartsWith(sLower, currentNameLower \o <<" ">>)

\* variant: the test of the length is inverted
IsRejectedIfEmpty(namesArray, userName) ==
    Len(namesArray) = 0 /\ ~IsInList(namesArray, userName)

\* namesArray.length > 0 && !isInList
IsRejected(namesArray, userName) ==
    Len(namesArray) > 0 /\ ~IsInList(namesArray, userName)

\* namesArray.filter(name => name.includes('DOP'))
DopListOf(namesArray) == Filter(namesArray, <<"D", "O", "P">>)

\* the payload of booking_lock
LockPayload(bs) ==
    [action   |-> "booking_lock",
     user     |-> UserName,
     dateKey  |-> bs.selectedDateKey,
     fromTime |-> bs.fromTime,
     toTime   |-> bs.toTime]

\* the click on lockBtn up to the await
LockClick ==
    /\ ~dom.lockBtnDisabled
    /\ Cardinality(LockRequests) < MaxLockInFlight
    /\ dom' = [dom EXCEPT !.lockBtnDisabled = TRUE]
    /\ net' = Append(net, LockPayload(bookingState))
    /\ lastEvent' = Sent("lockSent", LockPayload(bookingState))
    /\ UNCHANGED <<bookingState, bookingSubmitInFlight, employeeSelectionTimeout,
                   timers>>
    /\ UNCHANGED <<requestIds, otherPages>>

\* the bookingState a roster response leaves
LockedState(bs, namesArray) ==
    [bs EXCEPT !.dopList = DopListOf(namesArray),
               !.castList = namesArray,
               !.isLocked = TRUE,
               !.selectedDops = {},
               !.selectedCast = {}]

\* variant: the timer of the previous lock is left armed
LockClearTimersKept(ts, handle) == ts

\* if (employeeSelectionTimeout) clearTimeout(employeeSelectionTimeout)
LockClearTimers(ts, handle) ==
    IF Truthy(handle) THEN ClearTimeout(ts, handle) ELSE ts

\* lockDateAndTime after the await, for a response that arrived
LockResponse(i, response) ==
    /\ i \in LockRequests
    /\ net' = RemoveAt(net, i)
    /\ LET user == net[i].user
           namesArray == NamesArray(response)
       IN  IF IsOngoingBooking(response)
           THEN /\ Cardinality(TimersOf(timers, "conflictReload")) < MaxTimers
                /\ dom' = [dom EXCEPT !.lockBtnDisabled = FALSE]
                /\ timers' = SetTimeout(timers,
                                 NewTimerId(timers, employeeSelectionTimeout),
                                 "conflictReload", ConflictReloadDelay)
                /\ lastEvent' = Handled("lockConflict", response, ConflictMessage)
                /\ UNCHANGED <<bookingState, employeeSelectionTimeout>>
           ELSE IF IsRejected(namesArray, user)
           THEN /\ dom' = [dom EXCEPT !.lockBtnDisabled = FALSE]
                /\ lastEvent' = Handled("lockRejected", response, AlreadyBookedMessage)
                /\ UNCHANGED <<bookingState, employeeSelectionTimeout, timers>>
           ELSE LET bs1 == LockedState(bookingState, namesArray)
                    d1 == RenderCastCheckboxes(bs1, RenderDopCheckboxes(bs1, dom))
                    ts1 == LockClearTimers(timers, employeeSelectionTimeout)
                    id == NewTimerId(ts1, NULL)
                IN  /\ bookingState' = bs1
                    /\ dom' = [d1 EXCEPT !.submitSectionHidden = FALSE,
                                         !.lockBtnDisabled = FALSE]
                    /\ timers' = SetTimeout(ts1, id, "inactivityReload",
                                            InactivityDelay)
                    /\ employeeSelectionTimeout' = id
                    /\ lastEvent' = Handled("lockOk", response, "")
    /\ UNCHANGED bookingSubmitInFlight
    /\ UNCHANGED <<requestIds, otherPages>>

\* lockDateAndTime after the await, when API.postToN8n threw
LockFailure(i, message) ==
    /\ i \in LockRequests
    /\ net' = RemoveAt(net, i)
    /\ dom' = [dom EXCEPT !.lockBtnDisabled = FALSE]
    /\ lastEvent' = Handled("lockFailed", NoResponse, message)
    /\ UNCHANGED <<bookingState, bookingSubmitInFlight, employeeSelectionTimeout,
                   timers>>
    /\ UNCHANGED <<requestIds, otherPages>>


----------------------------------------------------------------------------
(* booking.js: submitBooking *)

\* variant: the in-flight guard is missing
SubmitSuppressedNever(inFlight) == FALSE

\* if (bookingSubmitInFlight) return
SubmitSuppressed(inFlight) == inFlight

\* the values crypto.randomUUID() and Date.now() can return
UuidChoices == {1, 2}
ClockChoices == {1, 2}

\* what one run of submitBooking reads from the window: whether
\* crypto.randomUUID exists, the UUID it returns, Date.now() and
\* Math.floor(Math.random() * 1000000)
SubmitEnvs ==
    [crypto : BOOLEAN, uuid : UuidChoices, now : ClockChoices, random : {0, 1}]

\* variant: the fallback key is the random number alone
RequestIdRandomOnly(env) ==
    IF env.crypto THEN [kind |-> "uuid", ts |-> 0, n |-> env.uuid]
    ELSE [kind |-> "time", ts |-> 0, n |-> env.random]

\* the idempotency key: crypto.randomUUID(), or Date.now() + '-' + random
RequestId(env) ==
    IF env.crypto THEN [kind |-> "uuid", ts |-> 0, n |-> env.uuid]
    ELSE [kind |-> "time", ts |-> env.now, n |-> env.random]

\* the payload of booking_submit
SubmitPayload(bs, d, request_id) ==
    [action   |-> "booking_submit",
     request_id |-> request_id,
     user     |-> UserName,
     dateKey  |-> bs.selectedDateKey,
     fromTime |-> bs.fromTime,
     toTime   |-> bs.toTime,
     shoot    |-> [shootName |-> Trim(d.shootName),
                   brand     |-> Trim(d.brand),
                   ip        |-> Trim(d.ip),
                   noOfShoot |-> ParseInt(d.noOfShoot),
                   location  |-> d.location],
     selected |-> [dops |-> bs.selectedDops, names |-> bs.selectedCast]]

\* the click on submitBookingBtn up to the await
SubmitClick(env) ==
    /\ ~dom.submitBtnDisabled
    /\ ~dom.submitSectionHidden
    /\ IF SubmitSuppressed(bookingSubmitInFlight)
       THEN /\ lastEvent' = Event("submitIgnored")
            /\ UNCHANGED <<bookingSubmitInFlight, dom, net>>
       ELSE /\ bookingSubmitInFlight' = TRUE
            /\ dom' = [dom EXCEPT !.submitBtnDisabled = TRUE]
            /\ net' = Append(net, [action |-> "booking_submit"])
            /\ lastEvent' = Sent("submitSent",
                                 SubmitPayload(bookingState, dom, RequestId(env)))
    /\ UNCHANGED <<bookingState, employeeSelectionTimeout, timers>>
    /\ UNCHANGED otherPages

\* variant: success forgets the handle without clearing its timer
SubmitClearTimersKept(ts, handle) == ts

\* if (employeeSelectionTimeout) { clearTimeout(...); ... = null }
SubmitClearTimers(ts, handle) ==
    IF Truthy(handle) THEN ClearTimeout(ts, handle) ELSE ts

SubmitClearHandle(handle) ==
    IF Truthy(handle) THEN NULL ELSE handle

\* variant: the flag is not reset when the call ends
SubmitFinallyInFlightKept == bookingSubmitInFlight

\* finally { ... bookingSubmitInFlight = false }
SubmitFinallyInFlight == FALSE

\* submitBooking after the await, when API.postToN8n returned
SubmitSuccess(i) ==
    /\ i \in SubmitRequests
    /\ Cardinality(TimersOf(timers, "resetForm")) < MaxTimers
    /\ net' = RemoveAt(net, i)
    /\ LET ts1 == SubmitClearTimers(timers, employeeSelectionTimeout)
           h1 == SubmitClearHandle(employeeSelectionTimeout)
       IN  /\ timers' = SetTimeout(ts1, NewTimerId(ts1, h1), "resetForm",
                                   SuccessDisplayDelay)
           /\ employeeSelectionTimeout' = h1
    /\ dom' = [dom EXCEPT !.submitBtnDisabled = FALSE]
    /\ bookingSubmitInFlight' = SubmitFinallyInFlight
    /\ lastEvent' = Event("submitOk")
    /\ UNCHANGED bookingState
    /\ UNCHANGED <<requestIds, otherPages>>

\* submitBooking after the await, when API.postToN8n threw
SubmitFailure(i, message) ==
    /\ i \in SubmitRequests
    /\ net' = RemoveAt(net, i)
    /\ dom' = [dom EXCEPT !.submitBtnDisabled = FALSE]
    /\ bookingSubmitInFlight' = SubmitFinallyInFlight
    /\ lastEvent' = Handled("submitFailed", NoResponse, message)
    /\ UNCHANGED <<bookingState, employeeSelectionTimeout, timers>>
    /\ UNCHANGED <<requestIds, otherPages>>

----------------------------------------------------------------------------
(* timer callbacks *)

\* window.location.reload(): the page starts over and no longer listens to
\* the requests of the page it replaces
Reload(type) ==
    /\ bookingState' = InitialBookingState
    /\ bookingSubmitInFlight' = FALSE
    /\ employeeSelectionTimeout' = NULL
    /\ dom' = InitialDom
    /\ timers' = {}
    /\ net' = <<>>
    /\ lastEvent' = Event(type)
    /\ UNCHANGED <<requestIds, otherPages>>

\* the callback armed by a soft lock conflict
ConflictReloadFires(t) ==
    /\ t \in TimersOf(timers, "conflictReload")
    /\ Reload("conflictReload")

\* the callback armed by a successful lock
InactivityReloadFires(t) ==
    /\ t \in TimersOf(timers, "inactivityReload")
    /\ Reload("inactivityReload")

\* the callback armed by a successful submit: resetBookingForm()
ResetFormFires(t) ==
    /\ t \in TimersOf(timers, "resetForm")
    /\ bookingState' = ResetBookingFormState(bookingState)
    /\ dom' = ResetBookingFormDom(bookingState, dom)
    /\ timers' = ResetLockTimers(timers \ {t}, employeeSelectionTimeout)
    /\ employeeSelectionTimeout' = ResetLockHandle(employeeSelectionTimeout)
    /\ lastEvent' = Event("resetForm")
    /\ UNCHANGED <<bookingSubmitInFlight, net>>
    /\ UNCHANGED <<requestIds, otherPages>>

----------------------------------------------------------------------------
(* The page *)

Offsets == 0..MaxOffset
Fields == {"shootName", "brand", "ip", "noOfShoot", "location"}
FieldChoices(field) ==
    IF field = "shootName" THEN ShootNameChoices
    ELSE IF field = "noOfShoot" THEN {<<>>, <<"2">>}
    ELSE TextChoices
RosterNames == {AshaCreator, RaviDop}

(* SpecClock: a date is chosen at any quarter of an hour of the day, and   *)
(* the two shortest times are picked when they are offered.               *)

\* what the clock reads when a date is chosen, as hours * 100 + minutes
ClockTimes == {h * 100 + m : h \in 0..23, m \in {0, 15, 30, 45}}

NextClock ==
    \/ \E offset \in Offsets, now \in ClockTimes : SelectDate(offset, now)
    \/ \E t \in TimeChoices \cup {EMPTY} : ChangeFromTime(t)
    \/ \E t \in TimeChoices \cup {EMPTY} : ChangeToTime(t)

SpecClock == Init /\ [][NextClock]_vars

(* SpecLock: every date, time and lock outcome, and the choice of DOP and *)
(* cast; the booking details stay empty, so nothing is submitted.         *)

NextLock ==
    \/ \E offset \in Offsets, now \in NowChoices : SelectDate(offset, now)
    \/ \E t \in TimeChoices \cup {EMPTY} : ChangeFromTime(t)
    \/ \E t \in TimeChoices \cup {EMPTY} : ChangeToTime(t)
    \/ \E name \in RosterNames : ToggleDop(name)
    \/ \E name \in RosterNames : ToggleCast(name)
    \/ LockClick
    \/ \E i \in 1..Len(net), response \in LockResponses : LockResponse(i, response)
    \/ \E i \in 1..Len(net), message \in ApiErrors : LockFailure(i, message)
    \/ \E t \in timers : InactivityReloadFires(t)
    \/ \E t \in timers : ConflictReloadFires(t)

SpecLock == Init /\ [][NextLock]_vars

(* SpecForm: every edit of the booking details, submit and its outcomes;  *)
(* the user selects today, 08:00 to 08:30, and the upstream answers a     *)
(* lock with a roster of one person, who is a DOP and the user.           *)

FormFields == {"shootName", "brand", "noOfShoot", "location"}

FormLockResponses ==
    {[shape |-> "obj", key |-> "", name |-> <<AshaDop>>]}

\* SpecForm does not follow the keys: the window has crypto.randomUUID
FormEnvs == {[crypto |-> TRUE, uuid |-> 1, now |-> 1, random |-> 0]}

NextForm ==
    \/ \E now \in NowChoices : SelectDate(0, now)
    \/ ChangeFromTime(800)
    \/ ChangeToTime(830)
    \/ \E field \in FormFields : \E value \in FieldChoices(field) : EditField(field, value)
    \/ ToggleDop(AshaDop)
    \/ ToggleCast(AshaDop)
    \/ LockClick
    \/ \E env \in FormEnvs : SubmitClick(env) /\ UNCHANGED requestIds
    \/ \E i \in 1..Len(net), response \in FormLockResponses : LockResponse(i, response)
    \/ \E i \in 1..Len(net), message \in ApiErrors : LockFailure(i, message)
    \/ \E i \in 1..Len(net) : SubmitSuccess(i)
    \/ \E i \in 1..Len(net), message \in ApiErrors : SubmitFailure(i, message)
    \/ \E t \in timers : InactivityReloadFires(t)
    \/ \E t \in timers : ResetFormFires(t)

SpecForm == Init /\ [][NextForm]_vars

----------------------------------------------------------------------------
(* Roster normalization: booking.js lockDateAndTime, my-day.js             *)
(* initiateEditBooking and displayAvailabilityResult                       *)

MaxRoster == 2

\* every sequence over S of at most n elements
SeqsUpTo(S, n) == UNION {[1..k -> S] : k \in 0..n}

\* the upstream's roster answers: {name: [...]}, [{name: [...]}] and [...]
RosterResponses ==
    {[shape |-> sh, key |-> "", name |-> r] :
        sh \in {"obj", "arr", "bare"},
        r \in SeqsUpTo({AshaCreator, RaviDop, AshaDop}, MaxRoster)}

\* my-day.js initiateEditBooking: response.name, response[0].name, or the
\* response itself when it is an array
EditNamesArray(response) ==
    IF response.shape = "obj" THEN response.name
    ELSE IF response.shape = "arr" THEN response.name
    ELSE IF response.shape = "bare" THEN response.name
    ELSE <<>>

\* my-day.js displayAvailabilityResult: response[0].name || [] for a
\* non-empty array (a string has no name), else response.name
AvailabilityNamesList(response) ==
    IF response.shape = "arr" THEN response.name
    ELSE IF response.shape = "bare" THEN <<>>
    ELSE IF response.shape = "obj" THEN response.name
    ELSE <<>>

\* the roster lockDateAndTime takes from the response
LockRoster ==
    /\ call' = [fn |-> "lockDateAndTime", input |-> call.input,
                output |-> NamesArray(call.input)]
    /\ UNCHANGED <<bookingState, bookingSubmitInFlight, employeeSelectionTimeout,
                   dom, timers, net, lastEvent, requestIds,
                   attendanceState, cards, localStorage, myDay, config,
                   proxy>>

\* the roster initiateEditBooking takes from the response
EditTeamRoster ==
    /\ call' = [fn |-> "initiateEditBooking", input |-> call.input,
                output |-> EditNamesArray(call.input)]
    /\ UNCHANGED <<bookingState, bookingSubmitInFlight, employeeSelectionTimeout,
                   dom, timers, net, lastEvent, requestIds,
                   attendanceState, cards, localStorage, myDay, config,
                   proxy>>

\* the roster displayAvailabilityResult takes from the response
SlotCheckRoster ==
    /\ call' = [fn |-> "displayAvailabilityResult", input |-> call.input,
                output |-> AvailabilityNamesList(call.input)]
    /\ UNCHANGED <<bookingState, bookingSubmitInFlight, employeeSelectionTimeout,
                   dom, timers, net, lastEvent, requestIds,
                   attendanceState, cards, localStorage, myDay, config,
                   proxy>>

InitRoster == \E r \in RosterResponses : InitWith(NoProxyCall, NoCall(r))

NextRoster == LockRoster \/ EditTeamRoster \/ SlotCheckRoster

SpecRoster == InitRoster /\ [][NextRoster]_vars

(* SpecMatch: the test of lockDateAndTime whether the user is in the      *)
(* roster, for rosters of entries written in several ways and for users   *)
(* with and without a name.                                               *)

AshaLower == <<"a", "s", "h", "a">>
Asha2Creator == <<"A", "s", "h", "a", "2", " ", "-", " ", "C">>
AshaUpperD == <<" ", "A", "S", "H", "A", " ", "D">>

\* the entries of a roster; String(entry || '') reads a null entry as ''
MatchEntries == {AshaCreator, Asha2Creator, AshaLower, AshaUpperD, RaviDop, <<>>}

\* user.name of the stored session; (user.name || '') reads a missing name
\* as ''
MatchUsers == {UserName, <<"a", "s", "h", "a", " ">>, <<"R", "a", "v", "i">>, <<>>}

\* lockDateAndTime: isInList for the roster and the user
MatchUser(userName) ==
    /\ call' = [fn |-> "isInList", input |-> call.input,
                output |-> [user |-> userName,
                            isInList |-> IsInList(call.input, userName)]]
    /\ UNCHANGED <<bookingState, bookingSubmitInFlight, employeeSelectionTimeout,
                   dom, timers, net, lastEvent, requestIds,
                   attendanceState, cards, localStorage, myDay, config,
                   proxy>>

InitMatch ==
    \E roster \in SeqsUpTo(MatchEntries, MaxRoster) :
        InitWith(NoProxyCall, NoCall(roster))

NextMatch == \E userName \in MatchUsers : MatchUser(userName)

SpecMatch == InitMatch /\ [][NextMatch]_vars

----------------------------------------------------------------------------
(* ui.js: validateTimeSelection on the 30-minute grid *)

\* UI.validateTimeSelection(fromTime, toTime) and the duration it judged
ValidateTime ==
    /\ call' = [fn |-> "validateTimeSelection", input |-> call.input,
                output |-> [valid |-> ValidateTimeSelection(call.input[1],
                                                            call.input[2]),
                            duration |-> GetTimeDuration(call.input[1],
                                                         call.input[2])]]
    /\ UNCHANGED <<bookingState, bookingSubmitInFlight, employeeSelectionTimeout,
                   dom, timers, net, lastEvent, requestIds,
                   attendanceState, cards, localStorage, myDay, config,
                   proxy>>

InitValidate == \E f \in AllTimes, t \in AllTimes : InitWith(NoProxyCall, NoCall(<<f, t>>))

NextValidate == ValidateTime

SpecValidate == InitValidate /\ [][NextValidate]_vars

(* SpecSubmitId: the idempotency keys of successive submissions.  Between *)
(* two runs of submitBooking lie the end of a network call and a click,   *)
(* so Date.now() has moved on, and randomUUID does not repeat a value;     *)
(* a window has crypto.randomUUID for all of its submissions or for none.  *)

\* the keys sent so far that carry a timestamp / that are UUIDs
SentTimestamps == {requestIds[k].ts : k \in 1..Len(requestIds)}
SentUuids ==
    {requestIds[k].n : k \in {j \in 1..Len(requestIds) : requestIds[j].kind = "uuid"}}

FreshEnv(env) ==
    /\ \A k \in 1..Len(requestIds) : (requestIds[k].kind = "uuid") = env.crypto
    /\ env.crypto => env.uuid \notin SentUuids
    /\ \A ts \in SentTimestamps : env.now > ts

\* a click on submitBookingBtn, with the key it sent put on record
SubmitAttempt(env) ==
    /\ FreshEnv(env)
    /\ SubmitClick(env)
    /\ requestIds' = IF lastEvent'.type = "submitSent"
                     THEN Append(requestIds, lastEvent'.request.request_id)
                     ELSE requestIds

\* the detail fields in the order of the form: the user fills them from
\* the top
FieldOrder == <<"shootName", "brand", "noOfShoot", "location">>

NextSubmitId ==
    \/ \E now \in NowChoices : SelectDate(0, now)
    \/ ChangeFromTime(800)
    \/ ChangeToTime(830)
    \/ \E k \in 1..Len(FieldOrder) :
          /\ \A j \in 1..(k - 1) : dom[FieldOrder[j]] # <<>>
          /\ \E value \in FieldChoices(FieldOrder[k]) \ {<<>>} :
                EditField(FieldOrder[k], value)
    \/ ToggleCast(AshaDop)
    \/ LockClick
    \/ \E env \in SubmitEnvs : SubmitAttempt(env)
    \/ \E i \in 1..Len(net), response \in FormLockResponses : LockResponse(i, response)
    \/ \E i \in 1..Len(net) : SubmitSuccess(i)
    \/ \E i \in 1..Len(net), message \in ApiErrors : SubmitFailure(i, message)
    \/ \E t \in timers : InactivityReloadFires(t)
    \/ \E t \in timers : ResetFormFires(t)

SpecSubmitId == Init /\ [][NextSubmitId]_vars

----------------------------------------------------------------------------
(* The /api/n8n proxy: api/n8n.js and the route of server.js.  A handler  *)
(* serves the incoming request in one step; the upstream's answer is      *)
(* part of the input.                                                      *)
(* A request_id is a string, "" when the body carries none.               *)

\* POST (and GET) requests: the request_id of the body, and whether the
\* body is JSON at all
N8nRequests ==
    [path : {"/api/n8n"}, method : {"POST", "GET"}, request_id : {"", "a"},
     json : BOOLEAN]

\* what the webhook answers: status, content type and body; a JSON body
\* may carry a request_id; "unreachable" when fetch throws
N8nUpstreams ==
    [reached : {TRUE}, status : {200, 502}, kind : {"json", "text"},
     request_id : {"", "a", "b"}, data : {"x"}]
    \cup {[reached |-> FALSE, status |-> 0, kind |-> "none",
            request_id |-> "", data |-> ""]}

\* process.env of the proxy: is the upstream URL set
ProxyEnvs == [configured : BOOLEAN]

\* a request that reached a proxy, the environment it runs in and the
\* answer the upstream will give if asked
Incoming(request, env, upstream) ==
    [handler |-> "none", request |-> request, env |-> env, forwarded |-> <<>>,
     upstream |-> upstream, status |-> 0, body |-> NULL]

ErrorBody(message) == [kind |-> "error", request_id |-> "", data |-> message]

ProxyAnswer(handler, request, forwarded, upstream, status, body) ==
    [handler |-> handler, request |-> request, env |-> proxy.env,
     forwarded |-> forwarded,
     upstream |-> upstream, status |-> status, body |-> body]

\* the body the handler hands on: the JSON as parsed, or {message: text}
N8nResponseData(upstream) ==
    IF upstream.kind = "json"
    THEN [kind |-> "json", request_id |-> upstream.request_id, data |-> upstream.data]
    ELSE [kind |-> "message", request_id |-> "", data |-> upstream.data]

\* api/n8n.js handler
N8nHandlerAnswer(request, env, upstream) ==
    LET request_id == request.request_id
        forwarded == <<[body |-> request, xRequestId |-> request_id]>>
        responseData == N8nResponseData(upstream)
    IN  IF request.method # "POST"
        THEN ProxyAnswer("api/n8n.js", request, <<>>, upstream, 405,
                         ErrorBody("Method not allowed. Use POST."))
        ELSE IF ~env.configured
        THEN ProxyAnswer("api/n8n.js", request, <<>>, upstream, 500,
                         ErrorBody("Server configuration error: No webhook URL set"))
        ELSE IF ~upstream.reached
        THEN ProxyAnswer("api/n8n.js", request, forwarded, upstream, 500,
                         ErrorBody("Failed to reach webhook"))
        ELSE IF responseData.request_id # "" /\ responseData.request_id # request_id
        THEN ProxyAnswer("api/n8n.js", request, forwarded, upstream, 500,
                         ErrorBody("Idempotency key mismatch"))
        ELSE ProxyAnswer("api/n8n.js", request, forwarded, upstream,
                         upstream.status, responseData)

\* server.js: the body the route hands on, fetch_response.json() or
\* {message: 'Invalid response'}
ServerN8nResponseData(upstream) ==
    IF upstream.kind = "json"
    THEN [kind |-> "json", request_id |-> upstream.request_id, data |-> upstream.data]
    ELSE [kind |-> "message", request_id |-> "", data |-> "Invalid response"]

\* server.js /api/n8n route
ServerN8nAnswer(request, env, upstream) ==
    LET forwarded == <<[body |-> request, xRequestId |-> ""]>>
    IN  IF request.method # "POST"
        THEN ProxyAnswer("server.js/n8n", request, <<>>, upstream, 405,
                         ErrorBody("Method not allowed. Use POST."))
        ELSE IF ~env.configured
        THEN ProxyAnswer("server.js/n8n", request, <<>>, upstream, 500,
                         ErrorBody("No webhook URL configured"))
        ELSE IF ~request.json
        THEN ProxyAnswer("server.js/n8n", request, <<>>, upstream, 400,
                         ErrorBody("Invalid JSON"))
        ELSE IF ~upstream.reached
        THEN ProxyAnswer("server.js/n8n", request, forwarded, upstream, 500,
                         ErrorBody("Failed to reach webhook"))
        ELSE ProxyAnswer("server.js/n8n", request, forwarded, upstream,
                         upstream.status, ServerN8nResponseData(upstream))

\* api/n8n.js serves a request
N8nHandler ==
    /\ proxy.handler = "none"
    /\ proxy.request.path = "/api/n8n"
    /\ proxy' = N8nHandlerAnswer(proxy.request, proxy.env, proxy.upstream)
    /\ UNCHANGED <<bookingState, bookingSubmitInFlight, employeeSelectionTimeout,
                   dom, timers, net, lastEvent, requestIds,
                   attendanceState, cards, localStorage, myDay, config,
                   call>>

\* server.js serves a request to /api/n8n
ServerN8nRoute ==
    /\ proxy.handler = "none"
    /\ proxy.request.path = "/api/n8n"
    /\ proxy' = ServerN8nAnswer(proxy.request, proxy.env, proxy.upstream)
    /\ UNCHANGED <<bookingState, bookingSubmitInFlight, employeeSelectionTimeout,
                   dom, timers, net, lastEvent, requestIds,
                   attendanceState, cards, localStorage, myDay, config,
                   call>>

----------------------------------------------------------------------------
(* The /api/attendance proxy: the route of server.js and the two          *)
(* serverless handlers.  Texts are character sequences, <<>> when a field  *)
(* is absent or empty; action and attendance are strings, "" likewise.     *)

AttendanceRequests ==
    [path : {"/api/attendance"}, method : {"GET", "POST"}, employeeParam : {<<>>, <<"e">>}, json : BOOLEAN,
     action : {"", "write", "update", "read"}, date : {<<>>, <<"d">>},
     employee : {<<>>, <<"e">>}, attendance : {"", "Present"},
     key : {<<>>, <<"k">>}]

\* what the Apps Script answers
AttendanceUpstreams == [reached : BOOLEAN, status : {200, 500}]

\* the read a GET forwards
ForwardedRead(request) ==
    <<[action |-> "read", date |-> <<>>, employee |-> request.employeeParam,
       attendance |-> "", key |-> <<>>]>>

\* key || `${date}${employee}`
KeyOrDefault(request) ==
    IF request.key # <<>> THEN request.key ELSE request.date \o request.employee

\* the answer that relays the upstream's status
RelayedBody(upstream) == [kind |-> "json", request_id |-> "", data |-> "rows"]

\* server.js /api/attendance route
ServerAttendanceAnswer(request, env, upstream) ==
    LET h == "server.js/attendance"
        forwardedWrite ==
            <<[action |-> request.action, date |-> request.date,
               employee |-> request.employee, attendance |-> request.attendance,
               key |-> KeyOrDefault(request)]>>
    IN  IF request.method = "GET"
        THEN IF request.employeeParam = <<>>
             THEN ProxyAnswer(h, request, <<>>, upstream, 400,
                              ErrorBody("Missing employee parameter"))
             ELSE IF ~env.configured
             THEN ProxyAnswer(h, request, <<>>, upstream, 500,
                              ErrorBody("Failed to reach Google Apps Script"))
             ELSE IF ~upstream.reached
             THEN ProxyAnswer(h, request, ForwardedRead(request), upstream, 500,
                              ErrorBody("Failed to reach Google Apps Script"))
             ELSE ProxyAnswer(h, request, ForwardedRead(request), upstream,
                              upstream.status, RelayedBody(upstream))
        ELSE IF ~request.json
        THEN ProxyAnswer(h, request, <<>>, upstream, 400, ErrorBody("Invalid JSON"))
        ELSE IF \/ request.action = ""
                \/ (request.action # "write" /\ request.action # "update")
                \/ request.date = <<>>
                \/ request.employee = <<>>
                \/ request.attendance = ""
        THEN ProxyAnswer(h, request, <<>>, upstream, 400,
                         ErrorBody("Missing required fields"))
        ELSE IF ~env.configured
        THEN ProxyAnswer(h, request, <<>>, upstream, 500,
                         ErrorBody("Server misconfigured"))
        ELSE IF ~upstream.reached
        THEN ProxyAnswer(h, request, forwardedWrite, upstream, 500,
                         ErrorBody("Failed to reach Google Apps Script"))
        ELSE ProxyAnswer(h, request, forwardedWrite, upstream,
                         upstream.status, RelayedBody(upstream))

\* the GET and POST branches the two serverless handlers share
ServerlessAttendanceAnswer(h, request, upstream) ==
    LET forwardedWrite ==
            <<[action |-> "write", date |-> request.date,
               employee |-> request.employee, attendance |-> request.attendance,
               key |-> KeyOrDefault(request)]>>
        relay(forwarded) ==
            IF ~upstream.reached
            THEN ProxyAnswer(h, request, forwarded, upstream, 500,
                             ErrorBody("Internal server error"))
            ELSE IF upstream.status # 200
            THEN ProxyAnswer(h, request, forwarded, upstream, upstream.status,
                             ErrorBody("Google Apps Script error"))
            ELSE ProxyAnswer(h, request, forwarded, upstream, 200,
                             RelayedBody(upstream))
    IN  IF request.method = "GET"
        THEN IF request.employeeParam = <<>>
             THEN ProxyAnswer(h, request, <<>>, upstream, 400,
                              ErrorBody("Missing employee parameter"))
             ELSE relay(ForwardedRead(request))
        ELSE IF \/ request.action = ""
                \/ request.action # "write"
                \/ request.date = <<>>
                \/ request.employee = <<>>
                \/ request.attendance = ""
        THEN ProxyAnswer(h, request, <<>>, upstream, 400,
                         ErrorBody("Missing required fields"))
        ELSE relay(forwardedWrite)

\* api/attendance.js handler: the upstream URL has a built-in default
AttendanceHandlerAnswer(request, env, upstream) ==
    ServerlessAttendanceAnswer("api/attendance.js", request, upstream)

\* the handler with restricted CORS origins: the upstream URL must be set
CorsAttendanceHandlerAnswer(request, env, upstream) ==
    IF ~env.configured
    THEN ProxyAnswer("attendance.js (cors)", request, <<>>, upstream, 500,
                     ErrorBody("Server misconfigured"))
    ELSE ServerlessAttendanceAnswer("attendance.js (cors)", request, upstream)

\* server.js serves a request to /api/attendance
ServerAttendanceRoute ==
    /\ proxy.handler = "none"
    /\ proxy.request.path = "/api/attendance"
    /\ proxy' = ServerAttendanceAnswer(proxy.request, proxy.env, proxy.upstream)
    /\ UNCHANGED <<bookingState, bookingSubmitInFlight, employeeSelectionTimeout,
                   dom, timers, net, lastEvent, requestIds,
                   attendanceState, cards, localStorage, myDay, config,
                   call>>

\* api/attendance.js serves a request
AttendanceHandler ==
    /\ proxy.handler = "none"
    /\ proxy.request.path = "/api/attendance"
    /\ proxy' = AttendanceHandlerAnswer(proxy.request, proxy.env, proxy.upstream)
    /\ UNCHANGED <<bookingState, bookingSubmitInFlight, employeeSelectionTimeout,
                   dom, timers, net, lastEvent, requestIds,
                   attendanceState, cards, localStorage, myDay, config,
                   call>>

\* the handler with restricted CORS origins serves a request
CorsAttendanceHandler ==
    /\ proxy.handler = "none"
    /\ proxy.request.path = "/api/attendance"
    /\ proxy' = CorsAttendanceHandlerAnswer(proxy.request, proxy.env, proxy.upstream)
    /\ UNCHANGED <<bookingState, bookingSubmitInFlight, employeeSelectionTimeout,
                   dom, timers, net, lastEvent, requestIds,
                   attendanceState, cards, localStorage, myDay, config,
                   call>>

InitProxy ==
    \/ \E request \in N8nRequests, env \in ProxyEnvs, upstream \in N8nUpstreams :
          InitWith(Incoming(request, env, upstream), NoCall(NULL))
    \/ \E request \in AttendanceRequests, env \in ProxyEnvs,
           upstream \in AttendanceUpstreams :
          InitWith(Incoming(request, env, upstream), NoCall(NULL))

NextProxy ==
    \/ N8nHandler
    \/ ServerN8nRoute
    \/ ServerAttendanceRoute
    \/ AttendanceHandler
    \/ CorsAttendanceHandler

SpecProxy == InitProxy /\ [][NextProxy]_vars

----------------------------------------------------------------------------
(* attendance.js: parseTimeToMinutes and getFilteredAttendanceOptions.     *)
(* A time text is a record of its format and the numbers written in it:    *)
(*   ampm   "h:mm am" or "h:mm pm"                                          *)
(*   iso    "1899-12-30T04:00:50.000Z"                                      *)
(*   date   "Sat Dec 30 1899 10:00:00 GMT+0521"                             *)
(*   hhmm   "09:00", hours and minutes without seconds or am/pm             *)
(*   empty  "" or a missing field                                           *)

MaxShoots == 2

ATTENDANCE_OPTIONS ==
    <<"Present", "Absent", "First-Half-Leave", "Second-Half-Leave",
      "Partial-Late", "Partial-Early">>

TimeText(fmt, h, m, ap) == [fmt |-> fmt, h |-> h, m |-> m, ap |-> ap]

\* the time texts a shoot row may carry
ShootTimes ==
    {TimeText("ampm", 9, 0, "am"), TimeText("ampm", 11, 30, "am"),
     TimeText("ampm", 12, 0, "pm"), TimeText("ampm", 3, 0, "pm"),
     TimeText("ampm", 6, 30, "pm"), TimeText("ampm", 7, 0, "pm"),
     TimeText("iso", 10, 0, ""), TimeText("date", 16, 0, ""),
     TimeText("hhmm", 9, 0, ""), TimeText("hhmm", 13, 0, "")}

\* what parseTimeToMinutes returns for a text it cannot parse
UNPARSEABLE == 999999

\* parseTimeToMinutes: the am/pm pattern, then T hh:mm:, then hh:mm:ss
ParseTimeToMinutes(timeValue) ==
    IF timeValue.fmt = "empty" THEN UNPARSEABLE
    ELSE IF timeValue.fmt = "ampm"
    THEN LET hh0 == timeValue.h
             hh1 == IF timeValue.ap = "pm" /\ hh0 # 12 THEN hh0 + 12 ELSE hh0
             hh2 == IF timeValue.ap = "am" /\ hh1 = 12 THEN 0 ELSE hh1
         IN  hh2 * 60 + timeValue.m
    ELSE IF timeValue.fmt = "iso" THEN timeValue.h * 60 + timeValue.m
    ELSE IF timeValue.fmt = "date" THEN timeValue.h * 60 + timeValue.m
    ELSE UNPARSEABLE

BEFORE_LATE_ARRIVAL == 11 * 60 + 30
BEFORE_FIRST_HALF == 15 * 60
AFTER_SECOND_HALF == 15 * 60
AFTER_LEAVE_EARLY == 18 * 60 + 30

\* filtered.filter(opt => opt.value # value)
WithoutOption(filtered, value) ==
    SelectSeq(filtered, LAMBDA opt : opt # value)

\* getFilteredAttendanceOptions for a date with the given shoots
GetFilteredAttendanceOptions(shoots) ==
    IF Len(shoots) = 0 THEN ATTENDANCE_OPTIONS
    ELSE
    LET fromMinutes(k) == ParseTimeToMinutes(shoots[k].from)
        toMinutes(k) == ParseTimeToMinutes(shoots[k].to)
        idx == 1..Len(shoots)
        hasShootBeforeLateArrival ==
            \E k \in idx : fromMinutes(k) < BEFORE_LATE_ARRIVAL
        hasShootBeforeFirstHalf ==
            \E k \in idx : fromMinutes(k) < BEFORE_FIRST_HALF
        hasShootAfterSecondHalf ==
            \E k \in idx : \/ toMinutes(k) >= AFTER_SECOND_HALF
                            \/ fromMinutes(k) >= AFTER_SECOND_HALF
        hasShootAfterLeaveEarly ==
            \E k \in idx : toMinutes(k) > AFTER_LEAVE_EARLY
        f1 == WithoutOption(ATTENDANCE_OPTIONS, "Absent")
        f2 == IF hasShootBeforeLateArrival
              THEN WithoutOption(f1, "Partial-Late") ELSE f1
        f3 == IF hasShootBeforeFirstHalf
              THEN WithoutOption(f2, "First-Half-Leave") ELSE f2
        f4 == IF hasShootAfterSecondHalf
              THEN WithoutOption(f3, "Second-Half-Leave") ELSE f3
        f5 == IF hasShootAfterLeaveEarly
              THEN WithoutOption(f4, "Partial-Early") ELSE f4
    IN  IF \E k \in 1..Len(f5) : f5[k] = "Present" THEN f5
        ELSE <<"Present">> \o f5

\* the shoots of one day: From Time and To Time of each row
ShootRows == [from : ShootTimes, to : ShootTimes]

\* the options offered for a day with the shoots given
FilterOptions ==
    /\ call' = [fn |-> "getFilteredAttendanceOptions", input |-> call.input,
                output |-> GetFilteredAttendanceOptions(call.input)]
    /\ UNCHANGED <<bookingState, bookingSubmitInFlight, employeeSelectionTimeout,
                   dom, timers, net, lastEvent, requestIds,
                   attendanceState, cards, localStorage, myDay, config,
                   proxy>>

InitOptions ==
    \E shoots \in SeqsUpTo(ShootRows, MaxShoots) :
        InitWith(NoProxyCall, NoCall(shoots))

NextOptions == FilterOptions

SpecOptions == InitOptions /\ [][NextOptions]_vars

----------------------------------------------------------------------------
(* attendance.js: the attendance page.  A date is the index of its card    *)
(* (1 is today); records, existingRecords and shoots are functions from    *)
(* the dates that have an entry, and a status text is "" where JavaScript  *)
(* has undefined or "".                                                    *)

MaxDays == 1

Days == 1..MaxDays

\* obj[key] of a JavaScript object holding status texts
Get(obj, key) == IF key \in DOMAIN obj THEN obj[key] ELSE ""

\* obj[key] = value
Put(obj, key, value) ==
    [k \in DOMAIN obj \cup {key} |-> IF k = key THEN value ELSE obj[k]]

\* attendanceState.shoots[dateString] || []
ShootsOf(st, d) == IF d \in DOMAIN st.shoots THEN st.shoots[d] ELSE <<>>

\* getAttendanceLabel: the label of an option value, or the value itself
GetAttendanceLabel(value) ==
    CASE value = "Present" -> "Present"
      [] value = "Absent" -> "Absent"
      [] value = "First-Half-Leave" -> "First Half-Day Leave"
      [] value = "Second-Half-Leave" -> "Second Half-Day Leave"
      [] value = "Partial-Late" -> "Partial Day - Late Arrival"
      [] value = "Partial-Early" -> "Partial Day - Leave Early"
      [] OTHER -> value

\* normalizeAttendanceStatus: the option value of a status the API returns
NormalizeAttendanceStatus(apiStatus) ==
    CASE apiStatus \in {"present", "Present"} -> "Present"
      [] apiStatus \in {"absent", "Absent"} -> "Absent"
      [] apiStatus \in {"first-half-leave", "First Half-Day Leave"} ->
            "First-Half-Leave"
      [] apiStatus \in {"second-half-leave", "Second Half-Day Leave"} ->
            "Second-Half-Leave"
      [] apiStatus \in {"partial-late", "Partial Day - Late Arrival"} ->
            "Partial-Late"
      [] apiStatus \in {"partial-early", "Partial Day - Leave Early"} ->
            "Partial-Early"
      [] OTHER -> apiStatus

\* what the attendance read returns for a date: no row, or a row with
\* this Attendance text
ApiStatuses == {"", "present", "Partial Day - Leave Early"}

\* what the shoots read returns for a date
DayShoots ==
    {<<>>, <<[from |-> TimeText("ampm", 9, 0, "am"),
              to |-> TimeText("ampm", 12, 0, "pm")]>>}

\* the statuses the user picks in a dropdown ("" is "Select Status")
StatusChoices == {"", "Present", "Absent", "Partial-Early"}

\* generateAttendanceCards: one card per date
GenerateAttendanceCards(st) ==
    [d \in Days |->
        LET existingStatus == Get(st.existingRecords, d)
            isReadOnly == existingStatus # ""
            filteredOptions == GetFilteredAttendanceOptions(ShootsOf(st, d))
        IN  [readonly         |-> isReadOnly,
             dropdownDisabled |-> isReadOnly,
             editing          |-> FALSE,
             isEdit           |-> isReadOnly,
             btnDisabled      |-> FALSE,
             btnText          |-> IF isReadOnly THEN "Edit" ELSE "Submit",
             message          |-> "",
             badge            |-> isReadOnly,
             options          |-> filteredOptions,
             value            |-> IF existingStatus \in SeqToSet(filteredOptions)
                                  THEN existingStatus ELSE ""]]

\* history of the attendance page: the handler that ran, its date and the
\* request it sent
AttendanceEvent(type, d, request) ==
    [type |-> type, request |-> request, response |-> NoResponse, shown |-> "",
     wasLocked |-> FALSE, date |-> d]

\* the booking page is not touched by the attendance page
AttendanceFrame ==
    UNCHANGED <<bookingState, bookingSubmitInFlight, employeeSelectionTimeout,
                dom, timers, requestIds, localStorage, myDay, proxy, call, config>>

\* initializePage and loadExistingAttendance: the rows of both reads are
\* stored and the cards generated
LoadExistingAttendance(rows, shoots) ==
    /\ cards = <<>>
    /\ LET recordsMap ==
               [d \in {x \in Days : rows[x] # ""} |->
                    NormalizeAttendanceStatus(rows[d])]
           st == [attendanceState EXCEPT !.userName = UserName,
                                         !.existingRecords = recordsMap,
                                         !.shoots = shoots]
       IN  /\ attendanceState' = st
           /\ cards' = GenerateAttendanceCards(st)
    /\ lastEvent' = AttendanceEvent("attendanceLoaded", 0, NoRequest)
    /\ UNCHANGED net
    /\ AttendanceFrame

\* the change listener of a dropdown
ChangeStatus(d, value) ==
    /\ d \in DOMAIN cards
    /\ ~cards[d].dropdownDisabled
    /\ value \in SeqToSet(cards[d].options) \cup {""}
    /\ value # cards[d].value
    /\ attendanceState' =
          [attendanceState EXCEPT !.records = Put(@, d, value)]
    /\ cards' = [cards EXCEPT ![d].value = value]
    /\ lastEvent' = AttendanceEvent("changeStatus", d, NoRequest)
    /\ UNCHANGED net
    /\ AttendanceFrame

\* variant: an update is sent only when the button still says Edit
IsUpdateEditOnly(hasExistingRecord, isEdit, editing) ==
    hasExistingRecord /\ isEdit

\* isUpdate: hasExistingRecord && (isEdit || editing)
IsUpdate(hasExistingRecord, isEdit, editing) ==
    hasExistingRecord /\ (isEdit \/ editing)

\* the payload writeAttendance posts to /api/attendance
WritePayload(d, employee, attendance, isUpdate) ==
    [action     |-> IF isUpdate THEN "update" ELSE "write",
     date       |-> d,
     employee   |-> employee,
     attendance |-> attendance,
     key        |-> <<d, employee>>]

\* submitAttendanceForDate up to the await: the click on the button of d
AttendanceClick(d) ==
    /\ d \in DOMAIN cards
    /\ ~cards[d].btnDisabled
    /\ LET card == cards[d]
           isEdit == card.isEdit
           selectedValue ==
               IF Get(attendanceState.records, d) # ""
               THEN Get(attendanceState.records, d)
               ELSE Get(attendanceState.existingRecords, d)
           hasExistingRecord == Get(attendanceState.existingRecords, d) # ""
           payload ==
               WritePayload(d, attendanceState.userName,
                            GetAttendanceLabel(selectedValue),
                            IsUpdate(hasExistingRecord, isEdit, card.editing))
       IN  IF isEdit /\ ~card.editing
           THEN /\ cards' = [cards EXCEPT ![d].editing = TRUE,
                                          ![d].dropdownDisabled = FALSE,
                                          ![d].btnText = "Update",
                                          ![d].isEdit = FALSE,
                                          ![d].message = "info"]
                /\ lastEvent' = AttendanceEvent("editUnlocked", d, NoRequest)
                /\ UNCHANGED net
           ELSE IF selectedValue = ""
           THEN /\ cards' = [cards EXCEPT ![d].message = "error",
                                          ![d].btnDisabled = FALSE,
                                          ![d].btnText = "Submit"]
                /\ lastEvent' = AttendanceEvent("attendanceInvalid", d, NoRequest)
                /\ UNCHANGED net
           ELSE /\ cards' = [cards EXCEPT ![d].message = "",
                                          ![d].btnDisabled = TRUE,
                                          ![d].btnText =
                                              IF isEdit \/ card.editing
                                              THEN "Updating..."
                                              ELSE "Submitting..."]
                /\ net' = Append(net, [action |-> "attendance", date |-> d,
                                       selectedValue |-> selectedValue,
                                       payload |-> payload])
                /\ lastEvent' = AttendanceEvent("attendanceSent", d, payload)
    /\ UNCHANGED attendanceState
    /\ AttendanceFrame

\* the payload sendAttendanceWebhook posts to /api/n8n
WebhookPayload(d, oldAttendance, fullLabel, employee) ==
    [action |-> "update_attendance", date |-> d,
     old_attendance |-> IF oldAttendance = "-" THEN "-"
                        ELSE GetAttendanceLabel(oldAttendance),
     new_attendance |-> fullLabel, employee |-> employee]

\* submitAttendanceForDate after the await, the write having succeeded
AttendanceWriteOk(i) ==
    /\ i \in 1..Len(net)
    /\ net[i].action = "attendance"
    /\ LET d == net[i].date
           selectedValue == net[i].selectedValue
           oldAttendance ==
               IF Get(attendanceState.existingRecords, d) # ""
               THEN Get(attendanceState.existingRecords, d) ELSE "-"
           webhook == WebhookPayload(d, oldAttendance,
                                     GetAttendanceLabel(selectedValue),
                                     attendanceState.userName)
       IN  /\ attendanceState' =
                 [attendanceState EXCEPT
                    !.existingRecords = Put(@, d, selectedValue),
                    !.records = Put(@, d, selectedValue)]
           /\ cards' = [cards EXCEPT ![d].message = "success",
                                     ![d].btnText = "Edit",
                                     ![d].isEdit = TRUE,
                                     ![d].dropdownDisabled = TRUE,
                                     ![d].editing = FALSE,
                                     ![d].readonly = TRUE,
                                     ![d].badge = TRUE]
           /\ net' = Append(RemoveAt(net, i), webhook)
           /\ lastEvent' = AttendanceEvent("attendanceWriteOk", d, webhook)
    /\ AttendanceFrame

\* submitAttendanceForDate after the await, the write having failed:
\* writeAttendance threw, or the result says ok: false
AttendanceWriteFailed(i) ==
    /\ i \in 1..Len(net)
    /\ net[i].action = "attendance"
    /\ LET d == net[i].date
       IN  /\ cards' = [cards EXCEPT ![d].message = "error",
                                     ![d].btnDisabled = FALSE,
                                     ![d].btnText = "Submit"]
           /\ lastEvent' = AttendanceEvent("attendanceWriteFailed", d, NoRequest)
    /\ net' = RemoveAt(net, i)
    /\ UNCHANGED attendanceState
    /\ AttendanceFrame

\* variant: a notification that fails marks the card as failed
WebhookFailureCardsMarked(cs, d) ==
    [cs EXCEPT ![d].message = "error", ![d].btnText = "Submit"]

\* the catch of sendAttendanceWebhook: console.warn and nothing else
WebhookFailureCards(cs, d) == cs

\* sendAttendanceWebhook after the await: the notification was delivered
WebhookOk(i) ==
    /\ i \in 1..Len(net)
    /\ net[i].action = "update_attendance"
    /\ net' = RemoveAt(net, i)
    /\ lastEvent' = AttendanceEvent("webhookOk", net[i].date, NoRequest)
    /\ UNCHANGED <<attendanceState, cards>>
    /\ AttendanceFrame

\* sendAttendanceWebhook after the await: API.postToN8n threw
WebhookFailed(i) ==
    /\ i \in 1..Len(net)
    /\ net[i].action = "update_attendance"
    /\ net' = RemoveAt(net, i)
    /\ cards' = WebhookFailureCards(cards, net[i].date)
    /\ lastEvent' = AttendanceEvent("webhookFailed", net[i].date, NoRequest)
    /\ UNCHANGED attendanceState
    /\ AttendanceFrame

\* the user reloads the page: the module state starts over and the page no
\* longer listens to the requests of the page it replaces
ReloadAttendancePage ==
    /\ cards # <<>>
    /\ attendanceState' = InitialAttendanceState
    /\ cards' = <<>>
    /\ net' = <<>>
    /\ lastEvent' = AttendanceEvent("attendanceReload", 0, NoRequest)
    /\ AttendanceFrame

NextAttendance ==
    \/ \E rows \in [Days -> ApiStatuses], shoots \in [Days -> DayShoots] :
          LoadExistingAttendance(rows, shoots)
    \/ \E d \in Days, value \in StatusChoices : ChangeStatus(d, value)
    \/ \E d \in Days : AttendanceClick(d)
    \/ \E i \in 1..Len(net) : AttendanceWriteOk(i)
    \/ \E i \in 1..Len(net) : AttendanceWriteFailed(i)
    \/ \E i \in 1..Len(net) : WebhookOk(i)
    \/ \E i \in 1..Len(net) : WebhookFailed(i)
    \/ ReloadAttendancePage

SpecAttendance == Init /\ [][NextAttendance]_vars

----------------------------------------------------------------------------
(* my-day.js: freeing oneself from a booking.  A text is the sequence of   *)
(* its characters.                                                         *)

MaxFreeInFlight == 1
MaxEditInFlight == 2

\* the bookings the upstream lists for the user: the user leads B2, and B3
\* under another spelling of the name
BookingRows ==
    {[id |-> "B1", creator |-> <<"R", "a", "v", "i">>,
      dop |-> AshaDop, cast |-> <<>>],
     [id |-> "B2", creator |-> UserName,
      dop |-> RaviDop, cast |-> AshaCreator \o <<",", " ">> \o RaviDop],
     [id |-> "B3", creator |-> <<" ", "a", "s", "h", "a", " ">>,
      dop |-> <<>>, cast |-> AshaCreator]}

BookingIds == {r.id : r \in BookingRows}

\* what the user types as the reason of a deletion
ReasonTexts == {<<>>, <<" ">>, <<" ", "x", " ">>}

\* the texts a response carries as "Free person": missing, the user, the
\* user in another case after someone else, someone else
FreePersonTexts ==
    {<<>>,
     UserName,
     <<"R", "a", "v", "i", ",", " ", "a", "s", "h", "a">>,
     <<"R", "a", "v", "i">>}

\* the answers of the webhook to a free request: an object or an array of
\* one object, with or without "Booking ID" ("" when missing) and
\* "Free person"
FreeResponses ==
    [shape : {"obj", "arr"}, bookingId : {"", "B1", "B2"},
     freePerson : FreePersonTexts]

\* String.split(','): the parts of s between commas
RECURSIVE SplitComma(_)
SplitComma(s) ==
    IF \E i \in 1..Len(s) : s[i] = ","
    THEN LET i == CHOOSE k \in 1..Len(s) :
                      s[k] = "," /\ \A j \in 1..(k - 1) : s[j] # ","
         IN  <<SubSeq(s, 1, i - 1)>> \o SplitComma(SubSeq(s, i + 1, Len(s)))
    ELSE <<s>>

\* getFreedBookings()[bookingId], <<>> when there is none
FreePersonList(ls, bookingId) ==
    IF bookingId \in DOMAIN ls.freedBookings
    THEN ls.freedBookings[bookingId] ELSE <<>>

\* isUserFreedFromBooking
IsUserFreedFromBooking(ls, bookingId, currentUserName) ==
    LET freePersonList == FreePersonList(ls, bookingId)
    IN  IF freePersonList = <<>> \/ currentUserName = <<>> THEN FALSE
        ELSE LET parts == SplitComma(freePersonList)
                 freePersonArray ==
                     {ToLowerCase(Trim(parts[k])) : k \in 1..Len(parts)}
             IN  ToLowerCase(Trim(currentUserName)) \in freePersonArray

\* markBookingFree's use of saveFreedBooking: the entry of the response's
\* "Booking ID" is replaced by the response's "Free person", when the
\* response has both
SaveFreedBooking(ls, request, freedData) ==
    IF freedData.bookingId # "" /\ freedData.freePerson # <<>>
    THEN [ls EXCEPT !.freedBookings =
            [b \in DOMAIN ls.freedBookings \cup {freedData.bookingId} |->
                IF b = freedData.bookingId THEN freedData.freePerson
                ELSE ls.freedBookings[b]]]
    ELSE ls

\* variant: the names are compared as written
IsShootLeadExact(currentUserName, shootLead) ==
    /\ currentUserName # <<>>
    /\ shootLead # <<>>
    /\ currentUserName = shootLead

\* isShootLead of displayUserBookings
IsShootLead(currentUserName, shootLead) ==
    /\ currentUserName # <<>>
    /\ shootLead # <<>>
    /\ ToLowerCase(Trim(currentUserName)) = ToLowerCase(Trim(shootLead))

\* displayUserBookings: the card of a listed booking offers Delete and Edit
\* to the user who leads it, and Free to a user who does not lead it and
\* is not freed from it
DisplayUserBookings(rows, ls, currentUserName) ==
    [b \in {r.id : r \in rows} |->
        LET row == CHOOSE r \in rows : r.id = b
            isUserFreed == IsUserFreedFromBooking(ls, b, currentUserName)
            isShootLead == IsShootLead(currentUserName, row.creator)
        IN  [creator |-> row.creator,
             dop |-> row.dop,
             cast |-> row.cast,
             deleteOffered |-> isShootLead,
             editOffered |-> isShootLead,
             freeOffered |-> ~isShootLead /\ ~isUserFreed,
             freed |-> isUserFreed]]

\* history of the my-day page: the handler that ran and the booking of its
\* request
MyDayEvent(type, bookingId) ==
    [type |-> type, request |-> NoRequest, response |-> NoResponse, shown |-> "",
     wasLocked |-> FALSE, bookingId |-> bookingId]

\* the other pages are not touched by the my-day page
MyDayFrame ==
    UNCHANGED <<bookingState, bookingSubmitInFlight, employeeSelectionTimeout,
                dom, requestIds, attendanceState, cards, proxy, call, config>>

\* DOMContentLoaded: loadUserBookings up to its fetch
MyDayPageLoad ==
    /\ ~myDay.loaded
    /\ myDay' = [myDay EXCEPT !.loaded = TRUE, !.listError = FALSE]
    /\ net' = Append(net, [action |-> "my_bookings"])
    /\ lastEvent' = MyDayEvent("myDayLoad", "")
    /\ UNCHANGED <<timers, localStorage>>
    /\ MyDayFrame

\* what the fetch of the list can give: a failed fetch or a status other
\* than 2xx (http FALSE), a bare array, null, or an object with or without
\* ok: true and with or without an array under rows
ListResponses ==
    {[http |-> FALSE, shape |-> "none", ok |-> FALSE, rowsIsArray |-> FALSE,
      rows |-> {}],
     [http |-> TRUE, shape |-> "null", ok |-> FALSE, rowsIsArray |-> FALSE,
      rows |-> {}],
     [http |-> TRUE, shape |-> "object", ok |-> FALSE, rowsIsArray |-> FALSE,
      rows |-> {}],
     [http |-> TRUE, shape |-> "object", ok |-> TRUE, rowsIsArray |-> FALSE,
      rows |-> {}]}
    \cup [http : {TRUE}, shape : {"array"}, ok : {FALSE},
          rowsIsArray : {FALSE}, rows : SUBSET BookingRows]
    \cup [http : {TRUE}, shape : {"object"}, ok : {TRUE},
          rowsIsArray : {TRUE}, rows : SUBSET BookingRows]

\* a bare array of rows as the answer
ArrayResponse(rows) ==
    [http |-> TRUE, shape |-> "array", ok |-> FALSE, rowsIsArray |-> FALSE,
     rows |-> rows]

\* the response normalization of loadUserBookings: whether it throws, and
\* the rows it goes on with
NormalizeBookings(data) ==
    IF ~data.http
    THEN [error |-> TRUE, rows |-> {}]
    ELSE IF data.shape = "array"
    THEN [error |-> FALSE, rows |-> data.rows]
    ELSE IF data.shape = "null" \/ ~data.ok
    THEN [error |-> TRUE, rows |-> {}]
    ELSE [error |-> FALSE,
          rows |-> IF data.rowsIsArray THEN data.rows ELSE {}]

\* loadUserBookings after its fetch: a throw shows the error line and the
\* error placeholder, no row shows the "No bookings found" placeholder,
\* and rows are rendered as cards
BookingsResponse(i, data) ==
    /\ i \in 1..Len(net)
    /\ net[i].action = "my_bookings"
    /\ LET normalized == NormalizeBookings(data)
       IN  IF normalized.error
           THEN /\ myDay' = [myDay EXCEPT !.bookingCards = <<>>,
                                          !.listError = TRUE,
                                          !.placeholder = "error"]
                /\ lastEvent' = MyDayEvent("bookingsLoadFailed", "")
           ELSE IF normalized.rows = {}
           THEN /\ myDay' = [myDay EXCEPT !.bookingCards = <<>>,
                                          !.placeholder = "none"]
                /\ lastEvent' = MyDayEvent("bookingsNone", "")
           ELSE /\ myDay' = [myDay EXCEPT
                               !.bookingCards =
                                   DisplayUserBookings(normalized.rows,
                                                       localStorage, UserName),
                               !.placeholder = ""]
                /\ lastEvent' = MyDayEvent("bookingsLoaded", "")
    /\ net' = RemoveAt(net, i)
    /\ UNCHANGED <<timers, localStorage>>
    /\ MyDayFrame

\* loadUserBookings after its fetch answered the bare array rows
BookingsLoaded(i, rows) == BookingsResponse(i, ArrayResponse(rows))

\* the free and delete requests awaiting their answer, the reloads they
\* scheduled and the list requests awaiting theirs
FreeWorkInProgress ==
    Len(SelectSeq(net, LAMBDA r :
            r.action \in {"free", "delete_booking", "my_bookings",
                          "booking_lock", "update_booking"}))
        + Cardinality(TimersOf(timers, "loadUserBookings"))

\* both dialogs cover the page: a card's button is clicked with none open
NoModalOpen ==
    ~myDay.deleteModal.open /\ ~myDay.freeModal.open /\ ~myDay.editModal.open

\* handleFreeBookingClick: the Free button of a card opens the free dialog
FreeClick(b) ==
    /\ b \in DOMAIN myDay.bookingCards
    /\ myDay.bookingCards[b].freeOffered
    /\ NoModalOpen
    /\ FreeWorkInProgress < MaxFreeInFlight
    /\ myDay' = [myDay EXCEPT !.freeModal = [open |-> TRUE, bookingId |-> b]]
    /\ lastEvent' = MyDayEvent("freeClick", b)
    /\ UNCHANGED <<timers, localStorage, net>>
    /\ MyDayFrame

\* handleFreeCancel and the click outside the dialog: closeFreeModal
FreeCancel ==
    /\ myDay.freeModal.open
    /\ myDay' = [myDay EXCEPT !.freeModal.open = FALSE]
    /\ lastEvent' = MyDayEvent("freeCancel", myDay.freeModal.bookingId)
    /\ UNCHANGED <<timers, localStorage, net>>
    /\ MyDayFrame

\* handleFreeConfirm, OK in the free dialog: markBookingFree up to its await
FreeConfirm ==
    /\ myDay.freeModal.open
    /\ myDay' = [myDay EXCEPT !.freeModal.open = FALSE]
    /\ net' = Append(net, [action |-> "free",
                           bookingId |-> myDay.freeModal.bookingId,
                           user |-> UserName])
    /\ lastEvent' = MyDayEvent("freeSent", myDay.freeModal.bookingId)
    /\ UNCHANGED <<timers, localStorage>>
    /\ MyDayFrame

\* markBookingFree after its await, the webhook having answered
FreeSuccess(i, response) ==
    /\ i \in 1..Len(net)
    /\ net[i].action = "free"
    /\ localStorage' = SaveFreedBooking(localStorage, net[i], response)
    /\ timers' = SetTimeout(timers, NewTimerId(timers, NULL),
                            "loadUserBookings", 1500)
    /\ myDay' = [myDay EXCEPT !.succeeded = @ \cup {net[i].bookingId}]
    /\ net' = RemoveAt(net, i)
    /\ lastEvent' = MyDayEvent("freeSuccess", net[i].bookingId)
    /\ MyDayFrame

\* markBookingFree after its await, API.postToN8n having thrown
FreeFailure(i) ==
    /\ i \in 1..Len(net)
    /\ net[i].action = "free"
    /\ net' = RemoveAt(net, i)
    /\ lastEvent' = MyDayEvent("freeFailure", net[i].bookingId)
    /\ UNCHANGED <<timers, localStorage, myDay>>
    /\ MyDayFrame

\* handleDeleteBookingClick: the Delete button of a card opens the delete
\* dialog with an empty reason
DeleteClick(b) ==
    /\ b \in DOMAIN myDay.bookingCards
    /\ myDay.bookingCards[b].deleteOffered
    /\ NoModalOpen
    /\ FreeWorkInProgress < MaxFreeInFlight
    /\ myDay' = [myDay EXCEPT
                   !.deleteModal =
                       [open |-> TRUE, bookingId |-> b, reason |-> <<>>]]
    /\ lastEvent' = MyDayEvent("deleteClick", b)
    /\ UNCHANGED <<timers, localStorage, net>>
    /\ MyDayFrame

\* the user types in deleteReasonInput
DeleteReasonInput(text) ==
    /\ myDay.deleteModal.open
    /\ myDay.deleteModal.reason # text
    /\ myDay' = [myDay EXCEPT !.deleteModal.reason = text]
    /\ lastEvent' = MyDayEvent("deleteReason", myDay.deleteModal.bookingId)
    /\ UNCHANGED <<timers, localStorage, net>>
    /\ MyDayFrame

\* handleDeleteCancel, Escape in the reason and the click outside the
\* dialog: closeDeleteModal
DeleteCancel ==
    /\ myDay.deleteModal.open
    /\ myDay' = [myDay EXCEPT !.deleteModal.open = FALSE,
                              !.deleteModal.reason = <<>>]
    /\ lastEvent' = MyDayEvent("deleteCancel", myDay.deleteModal.bookingId)
    /\ UNCHANGED <<timers, localStorage, net>>
    /\ MyDayFrame

\* variant: the reason is accepted as typed
ReasonGivenUntrimmed(text) == text # <<>>

\* handleDeleteConfirm: reasonInput.value.trim() is not empty
ReasonGiven(text) == Trim(text) # <<>>

\* handleDeleteConfirm, Delete in the delete dialog: without a reason a
\* toast and nothing else, with one deleteBooking up to its await
DeleteConfirm ==
    /\ myDay.deleteModal.open
    /\ IF ~ReasonGiven(myDay.deleteModal.reason)
       THEN /\ lastEvent' = MyDayEvent("deleteNoReason",
                                       myDay.deleteModal.bookingId)
            /\ UNCHANGED <<myDay, net>>
       ELSE /\ myDay' = [myDay EXCEPT !.deleteModal.open = FALSE,
                                      !.deleteModal.reason = <<>>]
            /\ net' = Append(net, [action |-> "delete_booking",
                                   bookingId |-> myDay.deleteModal.bookingId,
                                   deleteReason |->
                                       Trim(myDay.deleteModal.reason),
                                   user |-> UserName])
            /\ lastEvent' = MyDayEvent("deleteSent",
                                       myDay.deleteModal.bookingId)
    /\ UNCHANGED <<timers, localStorage>>
    /\ MyDayFrame

\* deleteBooking after its await, the webhook having answered
DeleteSuccess(i) ==
    /\ i \in 1..Len(net)
    /\ net[i].action = "delete_booking"
    /\ timers' = SetTimeout(timers, NewTimerId(timers, NULL),
                            "loadUserBookings", 1500)
    /\ net' = RemoveAt(net, i)
    /\ lastEvent' = MyDayEvent("deleteSuccess", net[i].bookingId)
    /\ UNCHANGED <<localStorage, myDay>>
    /\ MyDayFrame

\* deleteBooking after its await, API.postToN8n having thrown
DeleteFailure(i) ==
    /\ i \in 1..Len(net)
    /\ net[i].action = "delete_booking"
    /\ net' = RemoveAt(net, i)
    /\ lastEvent' = MyDayEvent("deleteFailure", net[i].bookingId)
    /\ UNCHANGED <<timers, localStorage, myDay>>
    /\ MyDayFrame

\* the timer markBookingFree or deleteBooking set fires: loadUserBookings
\* up to its fetch
ReloadBookingsFires(t) ==
    /\ t \in TimersOf(timers, "loadUserBookings")
    /\ timers' = timers \ {t}
    /\ net' = Append(net, [action |-> "my_bookings"])
    /\ myDay' = [myDay EXCEPT !.listError = FALSE]
    /\ lastEvent' = MyDayEvent("reloadBookings", "")
    /\ UNCHANGED localStorage
    /\ MyDayFrame

NextMyDay ==
    \/ MyDayPageLoad
    \/ \E i \in 1..Len(net), data \in ListResponses : BookingsResponse(i, data)
    \/ \E b \in BookingIds : FreeClick(b)
    \/ FreeCancel
    \/ FreeConfirm
    \/ \E i \in 1..Len(net), response \in FreeResponses : FreeSuccess(i, response)
    \/ \E i \in 1..Len(net) : FreeFailure(i)
    \/ \E b \in BookingIds : DeleteClick(b)
    \/ \E text \in ReasonTexts : DeleteReasonInput(text)
    \/ DeleteCancel
    \/ DeleteConfirm
    \/ \E i \in 1..Len(net) : DeleteSuccess(i)
    \/ \E i \in 1..Len(net) : DeleteFailure(i)
    \/ \E t \in timers : ReloadBookingsFires(t)

SpecMyDay == Init /\ [][NextMyDay]_vars

(* my-day.js: editing the team of a booking *)

\* what the lock call of the edit flow answers: no roster, or two DOPs
EditRosterResponses ==
    {[shape |-> "obj", key |-> "", name |-> r] :
        r \in {<<>>, <<RaviDop, AshaDop>>}}

\* extractNameOnly: the text before the last " - designation", trimmed
ExtractNameOnly(fullName) ==
    IF fullName = <<>> THEN fullName
    ELSE LET dashes == {k \in 1..Len(fullName) : fullName[k] = "-"}
         IN  IF dashes # {}
             THEN LET k == CHOOSE d \in dashes : \A e \in dashes : e <= d
                  IN  IF k > 1 /\ k < Len(fullName)
                      THEN Trim(SubSeq(fullName, 1, k - 1))
                      ELSE Trim(fullName)
             ELSE Trim(fullName)

\* text.split(',').map(trim).filter(nonempty) of a DOP or Cast field, []
\* for an empty one
AssignedList(text) ==
    IF text = <<>> THEN <<>>
    ELSE LET parts == SplitComma(text)
             trimmed == [k \in 1..Len(parts) |-> Trim(parts[k])]
         IN  SelectSeq(trimmed, LAMBDA x : x # <<>>)

\* the originals missing from the list are put in front of it, one by one
RECURSIVE UnshiftMissing(_, _)
UnshiftMissing(originals, available) ==
    IF originals = <<>> THEN available
    ELSE UnshiftMissing(Tail(originals),
                        IF Head(originals) \in SeqToSet(available)
                        THEN available
                        ELSE <<Head(originals)>> \o available)

\* new Set(list): the entries in the order of their first occurrence
RECURSIVE SetOf(_)
SetOf(list) ==
    IF list = <<>> THEN <<>>
    ELSE LET front == SetOf(SubSeq(list, 1, Len(list) - 1))
             last == list[Len(list)]
         IN  IF last \in SeqToSet(front) THEN front ELSE Append(front, last)

\* initiateEditBooking after its await: the edit state built from the
\* booking and the roster answered
EditStateOf(bookingId, dop, cast, response) ==
    LET namesArray == EditNamesArray(response)
        originalDops == AssignedList(dop)
        originalCast == AssignedList(cast)
    IN  [set |-> TRUE, bookingId |-> bookingId,
         originalDops |-> originalDops, originalCast |-> originalCast,
         selectedDops |-> SetOf(originalDops),
         selectedCast |-> SetOf(originalCast),
         availableDops |-> UnshiftMissing(originalDops, DopListOf(namesArray)),
         availableCast |-> UnshiftMissing(originalCast, namesArray)]

\* Set.add and Set.delete on a selection
SetAdd(selection, name) ==
    IF name \in SeqToSet(selection) THEN selection ELSE Append(selection, name)
SetDelete(selection, name) == SelectSeq(selection, LAMBDA x : x # name)

\* variant: every name of the list, whatever the other list holds
NamesNotInAll(list, other) ==
    [k \in 1..Len(list) |-> ExtractNameOnly(list[k])]

\* the names of the entries of list that other does not hold, in the order
\* of list
NamesNotIn(list, other) ==
    LET kept == SelectSeq(list, LAMBDA x : x \notin SeqToSet(other))
    IN  [k \in 1..Len(kept) |-> ExtractNameOnly(kept[k])]

\* handleUpdateBookingClick: removeUsers and addUsers
RemoveUsers(es) ==
    NamesNotIn(es.originalDops, es.selectedDops)
        \o NamesNotIn(es.originalCast, es.selectedCast)
AddUsers(es) ==
    NamesNotIn(es.selectedDops, es.originalDops)
        \o NamesNotIn(es.selectedCast, es.originalCast)

\* handleEditBookingClick: the Edit button of a card; refused when the
\* shoot has started, else initiateEditBooking up to its await, where
\* showEditModal replaces the lists of the dialog by loading lines
EditClickWithin(b, started, inFlight) ==
    /\ b \in DOMAIN myDay.bookingCards
    /\ myDay.bookingCards[b].editOffered
    /\ NoModalOpen
    /\ FreeWorkInProgress < inFlight
    /\ IF started
       THEN /\ lastEvent' = MyDayEvent("editRefused", b)
            /\ UNCHANGED <<myDay, net>>
       ELSE /\ myDay' = [myDay EXCEPT
                          !.editModal = [open |-> TRUE, bookingId |-> b,
                                         rendered |-> FALSE]]
            /\ net' = Append(net, [action |-> "booking_lock", bookingId |-> b,
                                   dop |-> myDay.bookingCards[b].dop,
                                   cast |-> myDay.bookingCards[b].cast])
            /\ lastEvent' = MyDayEvent("editClick", b)
    /\ UNCHANGED <<timers, localStorage>>
    /\ MyDayFrame

EditClick(b, started) == EditClickWithin(b, started, MaxFreeInFlight)

\* initiateEditBooking after its await, the webhook having answered: the
\* state of this call becomes window.editState and displayEditModal renders
\* its checkboxes into the dialog
EditRosterResponse(i, response) ==
    /\ i \in 1..Len(net)
    /\ net[i].action = "booking_lock"
    /\ myDay' = [myDay EXCEPT
                   !.editState = EditStateOf(net[i].bookingId, net[i].dop,
                                             net[i].cast, response),
                   !.editModal.rendered = TRUE]
    /\ net' = RemoveAt(net, i)
    /\ lastEvent' = MyDayEvent("editRoster", net[i].bookingId)
    /\ UNCHANGED <<timers, localStorage>>
    /\ MyDayFrame

\* initiateEditBooking after its await, API.postToN8n having thrown
EditRosterFailure(i) ==
    /\ i \in 1..Len(net)
    /\ net[i].action = "booking_lock"
    /\ net' = RemoveAt(net, i)
    /\ lastEvent' = MyDayEvent("editRosterFailure", net[i].bookingId)
    /\ UNCHANGED <<timers, localStorage, myDay>>
    /\ MyDayFrame

\* the change listener of a DOP checkbox of the edit dialog
ToggleEditDop(name) ==
    /\ myDay.editModal.open
    /\ myDay.editModal.rendered
    /\ myDay.editState.set
    /\ name \in SeqToSet(myDay.editState.availableDops)
    /\ myDay' = [myDay EXCEPT !.editState.selectedDops =
                    IF name \in SeqToSet(@) THEN SetDelete(@, name)
                    ELSE SetAdd(@, name)]
    /\ lastEvent' = MyDayEvent("toggleEditDop", myDay.editState.bookingId)
    /\ UNCHANGED <<timers, localStorage, net>>
    /\ MyDayFrame

\* the change listener of a cast checkbox of the edit dialog
ToggleEditCast(name) ==
    /\ myDay.editModal.open
    /\ myDay.editModal.rendered
    /\ myDay.editState.set
    /\ name \in SeqToSet(myDay.editState.availableCast)
    /\ myDay' = [myDay EXCEPT !.editState.selectedCast =
                    IF name \in SeqToSet(@) THEN SetDelete(@, name)
                    ELSE SetAdd(@, name)]
    /\ lastEvent' = MyDayEvent("toggleEditCast", myDay.editState.bookingId)
    /\ UNCHANGED <<timers, localStorage, net>>
    /\ MyDayFrame

\* Cancel and the click outside the edit dialog: closeEditModal
EditCancel ==
    /\ myDay.editModal.open
    /\ myDay' = [myDay EXCEPT !.editModal.open = FALSE,
                              !.editState = NoEditState]
    /\ lastEvent' = MyDayEvent("editCancel", myDay.editModal.bookingId)
    /\ UNCHANGED <<timers, localStorage, net>>
    /\ MyDayFrame

\* handleUpdateBookingClick: without an edit state a toast, without a
\* change the dialog closes, else submitUpdatedBooking up to its await
UpdateClick ==
    /\ myDay.editModal.open
    /\ FreeWorkInProgress < MaxFreeInFlight
    /\ LET es == myDay.editState
           removeUsers == RemoveUsers(es)
           addUsers == AddUsers(es)
       IN  IF ~es.set
           THEN /\ lastEvent' = MyDayEvent("updateNoState", "")
                /\ UNCHANGED <<myDay, net>>
           ELSE IF removeUsers = <<>> /\ addUsers = <<>>
           THEN /\ myDay' = [myDay EXCEPT !.editModal.open = FALSE,
                                          !.editState = NoEditState]
                /\ lastEvent' = MyDayEvent("updateNoChange", es.bookingId)
                /\ UNCHANGED net
           ELSE /\ net' = Append(net, [action |-> "update_booking",
                                       bookingId |-> es.bookingId,
                                       removeUsers |-> removeUsers,
                                       addUsers |-> addUsers])
                /\ lastEvent' = MyDayEvent("updateSent", es.bookingId)
                /\ UNCHANGED myDay
    /\ UNCHANGED <<timers, localStorage>>
    /\ MyDayFrame

\* submitUpdatedBooking after its await, the webhook having answered
UpdateSuccess(i) ==
    /\ i \in 1..Len(net)
    /\ net[i].action = "update_booking"
    /\ myDay' = [myDay EXCEPT !.editModal.open = FALSE,
                              !.editState = NoEditState]
    /\ timers' = SetTimeout(timers, NewTimerId(timers, NULL),
                            "loadUserBookings", 1500)
    /\ net' = RemoveAt(net, i)
    /\ lastEvent' = MyDayEvent("updateSuccess", net[i].bookingId)
    /\ UNCHANGED localStorage
    /\ MyDayFrame

\* submitUpdatedBooking after its await, API.postToN8n having thrown
UpdateFailure(i) ==
    /\ i \in 1..Len(net)
    /\ net[i].action = "update_booking"
    /\ net' = RemoveAt(net, i)
    /\ lastEvent' = MyDayEvent("updateFailure", net[i].bookingId)
    /\ UNCHANGED <<timers, localStorage, myDay>>
    /\ MyDayFrame

NextEdit ==
    \/ MyDayPageLoad
    \/ \E i \in 1..Len(net) : BookingsLoaded(i, BookingRows)
    \/ \E b \in BookingIds, started \in BOOLEAN : EditClick(b, started)
    \/ \E i \in 1..Len(net), response \in EditRosterResponses :
          EditRosterResponse(i, response)
    \/ \E i \in 1..Len(net) : EditRosterFailure(i)
    \/ \E name \in {AshaCreator, RaviDop, AshaDop} : ToggleEditDop(name)
    \/ \E name \in {AshaCreator, RaviDop, AshaDop} : ToggleEditCast(name)
    \/ EditCancel
    \/ UpdateClick
    \/ \E i \in 1..Len(net) : UpdateSuccess(i)
    \/ \E i \in 1..Len(net) : UpdateFailure(i)
    \/ \E t \in timers : ReloadBookingsFires(t)

SpecEdit == Init /\ [][NextEdit]_vars

\* the edit flow with the roster request of a cancelled edit still in
\* flight when the next Edit is clicked
NextEditRace ==
    \/ MyDayPageLoad
    \/ \E i \in 1..Len(net) : BookingsLoaded(i, BookingRows)
    \/ \E b \in BookingIds, started \in BOOLEAN :
          EditClickWithin(b, started, MaxEditInFlight)
    \/ \E i \in 1..Len(net), response \in EditRosterResponses :
          EditRosterResponse(i, response)
    \/ \E i \in 1..Len(net) : EditRosterFailure(i)
    \/ \E name \in {AshaCreator, RaviDop, AshaDop} : ToggleEditDop(name)
    \/ \E name \in {AshaCreator, RaviDop, AshaDop} : ToggleEditCast(name)
    \/ EditCancel
    \/ UpdateClick
    \/ \E i \in 1..Len(net) : UpdateSuccess(i)
    \/ \E i \in 1..Len(net) : UpdateFailure(i)
    \/ \E t \in timers : ReloadBookingsFires(t)

SpecEditRace == Init /\ [][NextEditRace]_vars

----------------------------------------------------------------------------
(* my-day.js and attendance.js: parseTimeToMinutes on the characters of    *)
(* the text, and my-day.js: sortBookingsByTime.                            *)
(* A booking row is its id, its Date as a day key (NULL when the field is  *)
(* missing or is no date) and the characters of its From Time.             *)

MaxBookings == 3

\* the minutes between UTC midnight and local midnight of the browser
LocalOffsetMinutes == 330

IsDigit(c) == DigitValue(c) # NULL

AllDigits(s) == \A i \in 1..Len(s) : IsDigit(s[i])

TwoDigits(s, i) == DigitValue(s[i]) * 10 + DigitValue(s[i + 1])

\* s has the form dd:dd: at position i
ClockAt(s, i) ==
    /\ i + 5 <= Len(s)
    /\ IsDigit(s[i]) /\ IsDigit(s[i + 1]) /\ s[i + 2] = ":"
    /\ IsDigit(s[i + 3]) /\ IsDigit(s[i + 4]) /\ s[i + 5] = ":"

\* the hour of the 12-hour pattern without its special cases
AmPmHoursPlain(hh, ap) == IF ap = "pm" THEN hh + 12 ELSE hh

\* if (ap === "pm" && hh !== 12) hh += 12; if (ap === "am" && hh === 12) hh = 0
AmPmHours(hh, ap) ==
    IF ap = "pm" /\ hh # 12 THEN hh + 12
    ELSE IF ap = "am" /\ hh = 12 THEN 0
    ELSE hh

\* s.match(/^(\d{1,2})(?::(\d{2}))?\s*(am|pm)$/): NULL without a match,
\* else hh * 60 + mm
MatchAmPm(s) ==
    IF Len(s) < 3 \/ s[Len(s)] # "m" \/ s[Len(s) - 1] \notin {"a", "p"}
    THEN NULL
    ELSE LET ap == IF s[Len(s) - 1] = "a" THEN "am" ELSE "pm"
             core == TrimEnd(SubSeq(s, 1, Len(s) - 2))
             n == Len(core)
         IN  IF n \in {1, 2} /\ AllDigits(core)
             THEN AmPmHours(ParseDigits(core, 0), ap) * 60
             ELSE IF /\ n \in {4, 5}
                     /\ core[n - 2] = ":"
                     /\ AllDigits(SubSeq(core, 1, n - 3))
                     /\ AllDigits(SubSeq(core, n - 1, n))
             THEN AmPmHours(ParseDigits(SubSeq(core, 1, n - 3), 0), ap) * 60
                      + TwoDigits(core, n - 1)
             ELSE NULL

\* s.match(/t(\d{2}):(\d{2}):/): the first match from the left
MatchIso8601(s) ==
    LET at == {i \in 2..Len(s) : s[i - 1] = "t" /\ ClockAt(s, i)}
    IN  IF at = {} THEN NULL
        ELSE LET i == CHOOSE k \in at : \A j \in at : k <= j
             IN  TwoDigits(s, i) * 60 + TwoDigits(s, i + 3)

\* s.match(/(\d{2}):(\d{2}):(\d{2})/): the first match from the left
MatchJsDate(s) ==
    LET at == {i \in 1..Len(s) :
                  /\ ClockAt(s, i)
                  /\ i + 7 <= Len(s)
                  /\ IsDigit(s[i + 6]) /\ IsDigit(s[i + 7])}
    IN  IF at = {} THEN NULL
        ELSE LET i == CHOOSE k \in at : \A j \in at : k <= j
             IN  TwoDigits(s, i) * 60 + TwoDigits(s, i + 3)

\* the three patterns in the order both files try them
MatchTimePatterns(s) ==
    IF MatchAmPm(s) # NULL THEN MatchAmPm(s)
    ELSE IF MatchIso8601(s) # NULL THEN MatchIso8601(s)
    ELSE MatchJsDate(s)

\* new Date(t) of the fallback: a date-only text yyyy-mm-dd is UTC
\* midnight, read with getHours and getMinutes in local time; a text
\* without a digit is an invalid date (NULL)
DateFallback(t) ==
    LET s == Trim(t)
    IN  IF /\ Len(s) = 10
           /\ s[5] = "-" /\ s[8] = "-"
           /\ AllDigits(SubSeq(s, 1, 4))
           /\ AllDigits(SubSeq(s, 6, 7))
           /\ AllDigits(SubSeq(s, 9, 10))
        THEN LocalOffsetMinutes
        ELSE NULL

\* attendance.js parseTimeToMinutes
AttendanceParseTimeToMinutes(timeValue) ==
    IF timeValue = <<>> THEN UNPARSEABLE
    ELSE LET s == ToLowerCase(Trim(timeValue))
         IN  IF MatchTimePatterns(s) # NULL THEN MatchTimePatterns(s)
             ELSE UNPARSEABLE

\* my-day.js parseTimeToMinutes
MyDayParseTimeToMinutes(t) ==
    IF t = <<>> THEN UNPARSEABLE
    ELSE LET s == ToLowerCase(Trim(t))
         IN  IF MatchTimePatterns(s) # NULL THEN MatchTimePatterns(s)
             ELSE IF DateFallback(t) # NULL THEN DateFallback(t)
             ELSE UNPARSEABLE

Text4pm == <<"4", ":", "0", "0", " ", "P", "M">>
Text4pmShort == <<"4", " ", "p", "m">>
Text1600Iso ==
    <<"1", "8", "9", "9", "-", "1", "2", "-", "3", "0", "T",
      "1", "6", ":", "0", "0", ":", "5", "0", ".", "0", "0", "0", "Z">>
Text1600Date ==
    <<"S", "a", "t", " ", "D", "e", "c", " ", "3", "0", " ",
      "1", "8", "9", "9", " ", "1", "6", ":", "0", "0", ":", "0", "0", " ",
      "G", "M", "T", "+", "0", "5", "2", "1">>
Text12am == <<"1", "2", " ", "a", "m">>
Text12pm == <<"1", "2", ":", "0", "0", "p", "m">>
Text930am == <<" ", "9", ":", "3", "0", " ", "a", "m", " ">>
TextSoon == <<"s", "o", "o", "n">>
TextDateOnly == <<"2", "0", "2", "6", "-", "1", "1", "-", "0", "5">>

isDateToday(dateValue) == dateValue # NULL /\ dateValue = TodayKey

isDateTomorrow(dateValue) == dateValue # NULL /\ dateValue = TodayKey + 1

\* the date priority of the comparator: today 0, tomorrow 1, others 2
DatePriority(row) ==
    IF isDateToday(row.date) THEN 0
    ELSE IF isDateTomorrow(row.date) THEN 1 ELSE 2

\* the comparator without the date priority
CompareBookingsByTime(a, b) ==
    MyDayParseTimeToMinutes(a.from) - MyDayParseTimeToMinutes(b.from)

\* the comparator of sortBookingsByTime
CompareBookings(a, b) ==
    IF DatePriority(a) # DatePriority(b)
    THEN DatePriority(a) - DatePriority(b)
    ELSE MyDayParseTimeToMinutes(a.from) - MyDayParseTimeToMinutes(b.from)

\* x placed before the first row that does not sort after it
RECURSIVE InsertBeforeEqual(_, _)
InsertBeforeEqual(sorted, x) ==
    IF sorted = <<>> THEN <<x>>
    ELSE IF CompareBookings(Head(sorted), x) >= 0 THEN <<x>> \o sorted
    ELSE <<Head(sorted)>> \o InsertBeforeEqual(Tail(sorted), x)

\* x placed behind the rows that sort before it or equal to it
RECURSIVE InsertSorted(_, _)
InsertSorted(sorted, x) ==
    IF sorted = <<>> THEN <<x>>
    ELSE IF CompareBookings(Head(sorted), x) > 0 THEN <<x>> \o sorted
    ELSE <<Head(sorted)>> \o InsertSorted(Tail(sorted), x)

\* bookings.slice().sort(comparator): Array.prototype.sort is stable, so
\* the result is the one of inserting the rows from left to right
RECURSIVE SortBookingsByTime(_)
SortBookingsByTime(bookings) ==
    IF bookings = <<>> THEN <<>>
    ELSE InsertSorted(
             SortBookingsByTime(SubSeq(bookings, 1, Len(bookings) - 1)),
             bookings[Len(bookings)])

\* the rows a list is drawn from
SortRows ==
    {[id |-> "B1", date |-> TodayKey, from |-> Text4pm],
     [id |-> "B2", date |-> TodayKey, from |-> Text4pmShort],
     [id |-> "B3", date |-> TodayKey, from |-> Text1600Iso],
     [id |-> "B4", date |-> TodayKey, from |-> Text930am],
     [id |-> "B5", date |-> TodayKey, from |-> TextSoon],
     [id |-> "B6", date |-> TodayKey + 1, from |-> Text12am],
     [id |-> "B7", date |-> TodayKey + 1, from |-> Text1600Date],
     [id |-> "B8", date |-> TodayKey + 2, from |-> <<>>],
     [id |-> "B9", date |-> NULL, from |-> Text12pm],
     [id |-> "B10", date |-> TodayKey, from |-> TextDateOnly]}

CallFrame ==
    UNCHANGED <<bookingState, bookingSubmitInFlight, employeeSelectionTimeout,
                dom, timers, net, lastEvent, requestIds,
                attendanceState, cards, localStorage, myDay, proxy, config>>

\* sortBookingsByTime applied to the list, and to its own result
SortBookings ==
    /\ call' = [fn |-> "sortBookingsByTime", input |-> call.input,
                output |->
                    [sorted |-> SortBookingsByTime(call.input),
                     again |-> SortBookingsByTime(
                                   SortBookingsByTime(call.input))]]
    /\ CallFrame

\* parseTimeToMinutes of my-day.js applied to the From Time of a row
MyDayParseTime(k) ==
    /\ k \in 1..Len(call.input)
    /\ call' = [fn |-> "parseTimeToMinutes", input |-> call.input,
                output |->
                    [file |-> "my-day.js", text |-> call.input[k].from,
                     minutes |->
                         MyDayParseTimeToMinutes(call.input[k].from)]]
    /\ CallFrame

\* parseTimeToMinutes of attendance.js applied to the From Time of a row
AttendanceParseTime(k) ==
    /\ k \in 1..Len(call.input)
    /\ call' = [fn |-> "parseTimeToMinutes", input |-> call.input,
                output |->
                    [file |-> "attendance.js", text |-> call.input[k].from,
                     minutes |->
                         AttendanceParseTimeToMinutes(call.input[k].from)]]
    /\ CallFrame

InitSort ==
    \E bookings \in SeqsUpTo(SortRows, MaxBookings) :
        InitWith(NoProxyCall, NoCall(bookings))

NextSort ==
    \/ SortBookings
    \/ \E k \in 1..MaxBookings : MyDayParseTime(k)
    \/ \E k \in 1..MaxBookings : AttendanceParseTime(k)

SpecSort == InitSort /\ [][NextSort]_vars

----------------------------------------------------------------------------
(* config.js: loadConfig and getConfig *)

MaxConfigRequests == 3

\* the other state of the page is not touched by config.js
ConfigFrame ==
    UNCHANGED <<bookingState, bookingSubmitInFlight, employeeSelectionTimeout,
                dom, timers, net, lastEvent, requestIds,
                attendanceState, cards, localStorage, myDay, proxy, call>>

\* getConfig(key) of a caller up to the await of the fetch in loadConfig:
\* with CONFIG set the cached configuration is returned, else /api/config
\* is fetched
GetConfig(c) ==
    /\ c \in ConfigCallers \ config.waiting
    /\ IF config.CONFIG
       THEN config' = [config EXCEPT
                         !.answers[c] = "config",
                         !.lastCall = [caller |-> c, cached |-> TRUE,
                                       fetched |-> FALSE]]
       ELSE /\ config.requests < MaxConfigRequests
            /\ config' = [config EXCEPT
                            !.waiting = @ \cup {c},
                            !.requests = @ + 1,
                            !.lastCall = [caller |-> c, cached |-> FALSE,
                                          fetched |-> TRUE]]
    /\ ConfigFrame

\* loadConfig of a caller after its fetch answered ok: CONFIG is set
ConfigLoaded(c) ==
    /\ c \in config.waiting
    /\ config' = [config EXCEPT !.CONFIG = TRUE,
                                !.waiting = @ \ {c},
                                !.successful = @ + 1,
                                !.answers[c] = "config"]
    /\ ConfigFrame

\* loadConfig of a caller after its fetch failed or answered not ok: the
\* caller gets null
ConfigFailed(c) ==
    /\ c \in config.waiting
    /\ config' = [config EXCEPT !.waiting = @ \ {c},
                                !.answers[c] = "null"]
    /\ ConfigFrame

NextConfig ==
    \/ \E c \in ConfigCallers : GetConfig(c)
    \/ \E c \in ConfigCallers : ConfigLoaded(c)
    \/ \E c \in ConfigCallers : ConfigFailed(c)

SpecConfig == Init /\ [][NextConfig]_vars

----------------------------------------------------------------------------
(* auth.js: AUTH.login and AUTH.logout.                                    *)
(* localStorage.cf_user is the sequence of the stored records: empty when  *)
(* the item is absent, one record when it is set.                          *)

MaxLoginInFlight == 2

\* the users the backend knows, as it may return them
ServerUsers ==
    {[email |-> "asha@cf.in", name |-> "Asha", role |-> "creator",
      password_hash |-> "hash-a"],
     [email |-> "ravi@cf.in", name |-> "Ravi", role |-> "dop",
      password_hash |-> "hash-r"]}

\* what is typed into the login form
LoginEmails == {"asha@cf.in", "ravi@cf.in"}
LoginPasswords == {"pw-a", "pw-r"}

\* what AUTH_API.validateLogin resolves to: null, or an object with ok
\* and with or without a user
LoginResults ==
    {[kind |-> "null", ok |-> FALSE, user |-> <<>>]}
    \cup [kind : {"object"}, ok : BOOLEAN,
          user : {<<>>} \cup {<<u>> : u \in ServerUsers}]

\* history of the login page and the logout buttons: the operation that
\* ran last and the result a login got
AuthEvent(type, result) ==
    [type |-> type, request |-> NoRequest, response |-> NoResponse,
     shown |-> "", wasLocked |-> FALSE, result |-> result]

AuthFrame ==
    UNCHANGED <<bookingState, bookingSubmitInFlight, employeeSelectionTimeout,
                dom, timers, requestIds, attendanceState, cards, myDay,
                proxy, call, config>>

\* variant: the user is stored as the backend returned it
SessionUserAsReturned(user) == user

\* const sessionUser = { email, name, role } of result.user
SessionUser(user) ==
    [email |-> user.email, name |-> user.name, role |-> user.role]

\* the submit handler of the login form and AUTH.login up to its await
LoginSubmit(email, password) ==
    /\ Len(SelectSeq(net, LAMBDA r : r.action = "login")) < MaxLoginInFlight
    /\ net' = Append(net, [action |-> "login", email |-> email,
                           password |-> password])
    /\ lastEvent' = AuthEvent("loginSubmit",
                              [kind |-> "none", ok |-> FALSE, user |-> <<>>])
    /\ UNCHANGED localStorage
    /\ AuthFrame

\* AUTH.login after its await: result.ok && result.user stores the
\* session; anything else, a throw on a null result included, stores
\* nothing
LoginResult(i, result) ==
    /\ i \in 1..Len(net)
    /\ net[i].action = "login"
    /\ localStorage' =
           IF result.kind = "object" /\ result.ok /\ result.user # <<>>
           THEN [localStorage EXCEPT
                    !.cf_user = <<SessionUser(result.user[1])>>]
           ELSE localStorage
    /\ net' = RemoveAt(net, i)
    /\ lastEvent' = AuthEvent("loginResult", result)
    /\ AuthFrame

\* AUTH.logout: localStorage.removeItem('cf_user')
Logout ==
    /\ localStorage' = [localStorage EXCEPT !.cf_user = <<>>]
    /\ lastEvent' = AuthEvent("logout",
                              [kind |-> "none", ok |-> FALSE, user |-> <<>>])
    /\ UNCHANGED net
    /\ AuthFrame

NextAuth ==
    \/ \E email \in LoginEmails, password \in LoginPasswords :
          LoginSubmit(email, password)
    \/ \E i \in 1..Len(net), result \in LoginResults : LoginResult(i, result)
    \/ Logout

SpecAuth == Init /\ [][NextAuth]_vars

----------------------------------------------------------------------------
(* Properties *)

InactivityTimers(ts) == TimersOf(ts, "inactivityReload")
ConflictTimers(ts) == TimersOf(ts, "conflictReload")
ResetTimers(ts) == TimersOf(ts, "resetForm")

LockOutcomes == {"lockConflict", "lockRejected", "lockOk"}
Reloads == {"conflictReload", "inactivityReload"}
DateTimeChanges == {"selectDate", "updateTimeSelection"}

\* the workflow state DateTimeSelected or Idle: no lock, no roster, no
\* selection, no inactivity timer
Unlocked(bs, handle, ts) ==
    /\ ~bs.isLocked
    /\ bs.dopList = <<>>
    /\ bs.castList = <<>>
    /\ bs.selectedDops = {}
    /\ bs.selectedCast = {}
    /\ handle = NULL
    /\ InactivityTimers(ts) = {}

\* the workflow state Idle
Idle(bs, handle, ts) ==
    /\ bs.selectedDateOffset = NULL
    /\ bs.selectedDateKey = NULL
    /\ bs.fromTime = NULL
    /\ bs.toTime = NULL
    /\ Unlocked(bs, handle, ts)

\* C1: while a booking_submit request is awaiting its response no further
\* one is sent: at most one booking_submit is in flight, a click on Submit
\* sends one exactly when none was in flight, and the in-flight flag is set
\* exactly while one is in flight.
C1_OneSubmitInFlight ==
    /\ Cardinality(SubmitRequests) <= 1
    /\ bookingSubmitInFlight <=> (Cardinality(SubmitRequests) = 1)
    /\ lastEvent.type = "submitIgnored" => Cardinality(SubmitRequests) = 1

\* a second click on Submit was suppressed while the first was in flight
C1_Witness ==
    /\ lastEvent.type = "submitIgnored"
    /\ Cardinality(SubmitRequests) = 1

C3_ChangeUnlocks ==
    [][(bookingState.isLocked /\ lastEvent'.type \in DateTimeChanges)
       => Unlocked(bookingState', employeeSelectionTimeout', timers')]_vars

\* a time was changed in Locked and no timer is left
C3_Witness ==
    /\ lastEvent.type = "updateTimeSelection"
    /\ lastEvent.wasLocked
    /\ ~bookingState.isLocked
    /\ timers = {}

\* C4 as claimed: a response that is neither a soft conflict nor a
\* rejection leaves the workflow Locked with the returned roster, empty
\* selections and a 90000 ms inactivity timer behind the handle; that timer
\* stays pending until a successful submit, a date or time change or a page
\* reload, and when it fires the page is reloaded.
C4_Original ==
    [][/\ lastEvent'.type = "lockOk" =>
            /\ bookingState'.isLocked
            /\ bookingState'.castList = NamesArray(lastEvent'.response)
            /\ bookingState'.dopList = DopListOf(NamesArray(lastEvent'.response))
            /\ bookingState'.selectedDops = {}
            /\ bookingState'.selectedCast = {}
            /\ InactivityTimers(timers') =
                   {[id |-> employeeSelectionTimeout', cb |-> "inactivityReload",
                     delay |-> 90000]}
       /\ (InactivityTimers(timers) # {} /\ InactivityTimers(timers') = {}) =>
            lastEvent'.type \in {"submitOk"} \cup DateTimeChanges \cup Reloads
       /\ lastEvent'.type = "inactivityReload" =>
            /\ InactivityTimers(timers) # {}
            /\ bookingState' = InitialBookingState
            /\ timers' = {}]_vars

\* C5: a response {key: "Ongoing Booking"} shows the retry message, leaves
\* bookingState, the handle and the inactivity timers as they were and arms
\* one new reload timer of 90000 ms; that timer stays pending until the page
\* reloads, and when it fires the page is reloaded.
C5_SoftConflict ==
    [][/\ (lastEvent'.type \in LockOutcomes /\ lastEvent'.response.key = "Ongoing Booking") =>
            /\ lastEvent'.type = "lockConflict"
            /\ lastEvent'.shown = ConflictMessage
            /\ bookingState' = bookingState
            /\ employeeSelectionTimeout' = employeeSelectionTimeout
            /\ InactivityTimers(timers') = InactivityTimers(timers)
            /\ \E t \in timers' \ timers :
                  /\ t.cb = "conflictReload"
                  /\ t.delay = 90000
                  /\ timers' = timers \cup {t}
       /\ (\E t \in ConflictTimers(timers) : t \notin timers') =>
            lastEvent'.type \in Reloads
       /\ lastEvent'.type = "conflictReload" =>
            /\ ConflictTimers(timers) # {}
            /\ bookingState' = InitialBookingState
            /\ timers' = {}]_vars

\* a soft conflict was answered and its reload is pending
C5_Witness ==
    /\ lastEvent.type = "lockConflict"
    /\ ~bookingState.isLocked
    /\ ConflictTimers(timers) # {}

\* C6 as claimed: every booking_submit request is sent in Locked with
\* shootName, brand or ip, noOfShoot and location non-empty and at least one
\* selected cast member.
C6_Original ==
    lastEvent.type = "submitSent" =>
        /\ bookingState.isLocked
        /\ lastEvent.request.shoot.shootName # <<>>
        /\ (lastEvent.request.shoot.brand # <<>> \/ lastEvent.request.shoot.ip # <<>>)
        /\ lastEvent.request.shoot.noOfShoot # NULL
        /\ lastEvent.request.shoot.location # <<>>
        /\ lastEvent.request.selected.names # {}

\* C7 as claimed: selectedDops and selectedCast are disjoint in every
\* state, and so are selected.dops and selected.names of every request.
C7_Original ==
    /\ bookingState.selectedDops \cap bookingState.selectedCast = {}
    /\ lastEvent.type = "submitSent" =>
          lastEvent.request.selected.dops \cap lastEvent.request.selected.names = {}

C9_FailureKeepsState ==
    [][/\ lastEvent'.type \in {"lockFailed", "submitFailed"} =>
            /\ bookingState' = bookingState
            /\ employeeSelectionTimeout' = employeeSelectionTimeout
            /\ timers' = timers
            /\ lastEvent'.shown \in ApiErrors
       /\ lastEvent'.type = "submitFailed" => ~bookingSubmitInFlight'
       /\ lastEvent'.type = "lockFailed" =>
            bookingSubmitInFlight' = bookingSubmitInFlight]_vars

\* a booking_submit failed while locked with the inactivity timer pending
C9_Witness ==
    /\ lastEvent.type = "submitFailed"
    /\ bookingState.isLocked
    /\ bookingState.selectedCast # {}
    /\ InactivityTimers(timers) # {}
    /\ ~bookingSubmitInFlight

\* C10 as claimed: every booking_lock request carries a non-null date and a
\* (fromTime, toTime) pair that passes validateTimeSelection.
C10_Original ==
    lastEvent.type = "lockSent" =>
        /\ lastEvent.request.dateKey # NULL
        /\ ValidateTimeSelection(lastEvent.request.fromTime, lastEvent.request.toTime)

\* C11 (as stated): for a response {name:[...]}, [{name:[...]}] or a bare
\* array of strings, the roster used by the lock, edit-team and slot-check
\* paths is the ordered sequence of names the response carries.
C11_Original ==
    call.fn \in {"lockDateAndTime", "initiateEditBooking",
                 "displayAvailabilityResult"}
        => call.output = call.input.name

\* minutes since midnight of the time HH:MM
MinutesOfDay(t) == (t \div 100) * 60 + (t % 100)

\* C12: for all (fromTime, toTime) on the 30-minute grid,
\* validateTimeSelection is valid exactly when toTime minus fromTime in
\* minutes is at least 30 and at most 1800; 14:00-14:30 is valid with
\* duration 30 and 14:00-14:00 is invalid.
C12_ValidIffDuration ==
    call.fn = "validateTimeSelection" =>
        LET d == MinutesOfDay(call.input[2]) - MinutesOfDay(call.input[1])
        IN  /\ call.output.valid <=> (30 <= d /\ d <= 1800)
            /\ call.input = <<1400, 1430>> =>
                    call.output.valid /\ call.output.duration = 30
            /\ call.input = <<1400, 1400>> => ~call.output.valid

\* 14:00-14:30 has been validated and accepted
C12_Witness ==
    /\ call.fn = "validateTimeSelection"
    /\ call.input = <<1400, 1430>>
    /\ call.output.valid

\* C13: every booking_submit carries a present, non-empty request_id, and
\* each submission attempt generates a fresh one: no two booking_submit
\* requests sent by the client share a request_id.
C13_FreshRequestId ==
    /\ lastEvent.type = "submitSent" =>
            /\ "request_id" \in DOMAIN lastEvent.request
            /\ lastEvent.request.request_id.kind \in {"uuid", "time"}
            /\ lastEvent.request.request_id = requestIds[Len(requestIds)]
    /\ \A j, k \in 1..Len(requestIds) : j # k => requestIds[j] # requestIds[k]

\* two submissions went out from a window without crypto.randomUUID and
\* drew the same random number
C13_Witness ==
    /\ Len(requestIds) = 2
    /\ requestIds[1].kind = "time"
    /\ requestIds[2].kind = "time"
    /\ requestIds[1].n = requestIds[2].n

\* the handlers of /api/n8n and of /api/attendance
N8nHandlers == {"api/n8n.js", "server.js/n8n"}
AttendanceHandlers ==
    {"server.js/attendance", "api/attendance.js", "attendance.js (cors)"}

\* C14 (as stated): the /api/n8n proxy answers a POST with the upstream
\* status and body unchanged, except that when the upstream body carries a
\* request_id different from that of the incoming request it answers
\* HTTP 500 'Idempotency key mismatch' and does not pass the body on.
\* Stated for a configured proxy, a JSON request and a JSON answer.
C14_Original ==
    (/\ proxy.handler \in N8nHandlers
     /\ proxy.request.method = "POST"
     /\ proxy.request.json
     /\ Len(proxy.forwarded) = 1
     /\ proxy.upstream.reached
     /\ proxy.upstream.kind = "json")
    => IF /\ proxy.upstream.request_id # ""
          /\ proxy.upstream.request_id # proxy.request.request_id
       THEN /\ proxy.status = 500
            /\ proxy.body = ErrorBody("Idempotency key mismatch")
       ELSE /\ proxy.status = proxy.upstream.status
            /\ proxy.body = [kind |-> "json",
                             request_id |-> proxy.upstream.request_id,
                             data |-> proxy.upstream.data]

\* C15 (as stated): the /api/attendance proxy forwards a POST upstream
\* exactly when action is "write" or "update" and date, employee and
\* attendance are non-empty, forwarding that action and key (date+employee
\* when key is absent); every other POST, and every GET without an
\* employee parameter, is answered 400 without any upstream call.
\* Stated for a configured proxy and a JSON request.
C15_Original ==
    (/\ proxy.handler \in AttendanceHandlers
     /\ proxy.request.json
     /\ proxy.status # 500 \/ Len(proxy.forwarded) = 1)
    => LET r == proxy.request
           complete == /\ r.action \in {"write", "update"}
                       /\ r.date # <<>>
                       /\ r.employee # <<>>
                       /\ r.attendance # ""
       IN  /\ (r.method = "POST" /\ complete) =>
                  /\ Len(proxy.forwarded) = 1
                  /\ proxy.forwarded[1].action = r.action
                  /\ proxy.forwarded[1].key =
                        IF r.key # <<>> THEN r.key ELSE r.date \o r.employee
           /\ (r.method = "POST" /\ ~complete) =>
                  proxy.status = 400 /\ proxy.forwarded = <<>>
           /\ (r.method = "GET" /\ r.employeeParam = <<>>) =>
                  proxy.status = 400 /\ proxy.forwarded = <<>>

\* the time of day a time text denotes, in minutes since midnight
TimeOfDay(t) ==
    IF t.fmt = "ampm"
    THEN ((t.h % 12) + (IF t.ap = "pm" THEN 12 ELSE 0)) * 60 + t.m
    ELSE t.h * 60 + t.m

\* the statuses a day with the given shoots must not offer
ExcludedOptions(shoots) ==
    LET idx == 1..Len(shoots)
        start(k) == TimeOfDay(shoots[k].from)
        end(k) == TimeOfDay(shoots[k].to)
    IN  (IF idx # {} THEN {"Absent"} ELSE {})
        \cup (IF \E k \in idx : start(k) < 690 THEN {"Partial-Late"} ELSE {})
        \cup (IF \E k \in idx : start(k) < 900 THEN {"First-Half-Leave"} ELSE {})
        \cup (IF \E k \in idx : start(k) >= 900 \/ end(k) >= 900
              THEN {"Second-Half-Leave"} ELSE {})
        \cup (IF \E k \in idx : end(k) > 1110 THEN {"Partial-Early"} ELSE {})

\* C16 (as stated): for every set of shoots on a day,
\* getFilteredAttendanceOptions offers all six statuses minus Absent if any
\* shoot exists, Partial-Late if a shoot starts before 11:30,
\* First-Half-Leave if one starts before 15:00, Second-Half-Leave if one
\* starts or ends at or after 15:00, Partial-Early if one ends after 18:30;
\* one shoot {from: "09:00", to: "13:00"} excludes Absent, Partial-Late and
\* First-Half-Leave and retains Second-Half-Leave, Partial-Early, Present.
C16_Original ==
    call.fn = "getFilteredAttendanceOptions" =>
        /\ SeqToSet(call.output) =
              SeqToSet(ATTENDANCE_OPTIONS) \ ExcludedOptions(call.input)
        /\ call.input = <<[from |-> TimeText("hhmm", 9, 0, ""),
                           to |-> TimeText("hhmm", 13, 0, "")]>> =>
              SeqToSet(call.output) =
                  {"Present", "Second-Half-Leave", "Partial-Early"}

\* the card of d is read-only and its button is an enabled Edit
ReadOnlyWithEdit(d) ==
    /\ cards[d].readonly
    /\ cards[d].dropdownDisabled
    /\ cards[d].btnText = "Edit"
    /\ cards[d].isEdit
    /\ ~cards[d].btnDisabled

\* C17: a day with a recorded status shows, on the initial render and after
\* every successful submit or update, a read-only card with an enabled Edit
\* button; a click on Edit enables the dropdown and sends no request.
C17_Original ==
    /\ lastEvent.type = "attendanceLoaded" =>
          \A d \in Days :
              Get(attendanceState.existingRecords, d) # "" => ReadOnlyWithEdit(d)
    /\ lastEvent.type = "attendanceWriteOk" => ReadOnlyWithEdit(lastEvent.date)
    /\ lastEvent.type = "editUnlocked" =>
          /\ ~cards[lastEvent.date].dropdownDisabled
          /\ lastEvent.request = NoRequest

\* C18: every attendance request the page sends has action "update" exactly
\* when existingRecords holds a record for its date, action "write"
\* otherwise, and a status that is not empty.
C18_UpdateIffExisting ==
    lastEvent.type = "attendanceSent" =>
        /\ lastEvent.request.action \in {"update", "write"}
        /\ (lastEvent.request.action = "update") <=>
              (Get(attendanceState.existingRecords, lastEvent.date) # "")
        /\ lastEvent.request.attendance # ""

C18_Witness ==
    /\ lastEvent.type = "attendanceSent"
    /\ lastEvent.request.action = "update"
    /\ Get(attendanceState.existingRecords, lastEvent.date) # ""
    /\ cards[lastEvent.date].btnText = "Updating..."

\* C19: the answer of the notification webhook, delivered or failed, changes
\* neither existingRecords, records nor any card, so the card of a written
\* day stays read-only with its success message.
C19_FireAndForget ==
    [][lastEvent'.type \in {"webhookOk", "webhookFailed"} =>
          UNCHANGED <<attendanceState, cards>>]_vars

C19_Witness ==
    /\ lastEvent.type = "webhookFailed"
    /\ cards[lastEvent.date].readonly
    /\ cards[lastEvent.date].message = "success"
    /\ Get(attendanceState.existingRecords, lastEvent.date) # ""

\* C20: after a successful free request of the user for a booking the
\* freedBookings entry of that booking names the user, and a list of
\* bookings rendered after it does not offer Free on that booking.
C20_Original ==
    /\ lastEvent.type = "freeSuccess" =>
          IsUserFreedFromBooking(localStorage, lastEvent.bookingId, UserName)
    /\ lastEvent.type = "bookingsLoaded" =>
          \A b \in DOMAIN myDay.bookingCards \cap myDay.succeeded :
              ~myDay.bookingCards[b].freeOffered

\* the two names are equal once trimmed and lower-cased
SameName(a, b) == ToLowerCase(Trim(a)) = ToLowerCase(Trim(b))

\* C21: on every rendered booking card Delete and Edit are offered exactly
\* when the user's name equals the booking's Creator, trimmed and without
\* regard to case; Free exactly when the user is not the creator and is not
\* in the freed list of the booking; Free never together with Delete or
\* Edit.
C21_ButtonsByRole ==
    \A b \in DOMAIN myDay.bookingCards :
        LET card == myDay.bookingCards[b]
        IN  /\ card.deleteOffered <=> SameName(UserName, card.creator)
            /\ card.editOffered <=> SameName(UserName, card.creator)
            /\ lastEvent.type = "bookingsLoaded" =>
                  (card.freeOffered <=>
                      /\ ~SameName(UserName, card.creator)
                      /\ ~IsUserFreedFromBooking(localStorage, b, UserName))
            /\ ~(card.freeOffered /\ (card.deleteOffered \/ card.editOffered))

C21_Witness ==
    /\ lastEvent.type = "bookingsLoaded"
    /\ DOMAIN myDay.bookingCards = BookingIds
    /\ myDay.bookingCards["B3"].deleteOffered
    /\ myDay.bookingCards["B2"].editOffered
    /\ myDay.bookingCards["B1"].freed
    /\ ~myDay.bookingCards["B1"].freeOffered

\* the requests in flight with this action
RequestsOf(q, action) == Len(SelectSeq(q, LAMBDA r : r.action = action))

\* C22: a delete_booking request is sent only by the confirmation of the
\* open delete dialog with a reason that is not empty once trimmed, a free
\* request only by the confirmation of the open free dialog, and closing
\* either dialog without confirming sends nothing.
C22_SentAfterConfirmation ==
    [][/\ RequestsOf(net', "delete_booking") > RequestsOf(net, "delete_booking") =>
             /\ myDay.deleteModal.open
             /\ Trim(myDay.deleteModal.reason) # <<>>
             /\ lastEvent'.type = "deleteSent"
             /\ net'[Len(net')].bookingId = myDay.deleteModal.bookingId
       /\ RequestsOf(net', "free") > RequestsOf(net, "free") =>
             /\ myDay.freeModal.open
             /\ lastEvent'.type = "freeSent"
             /\ net'[Len(net')].bookingId = myDay.freeModal.bookingId
       /\ lastEvent'.type \in {"deleteCancel", "freeCancel", "deleteNoReason"} =>
             net' = net]_vars

C22_Witness ==
    /\ lastEvent.type = "deleteSent"
    /\ RequestsOf(net, "delete_booking") = 1
    /\ net[Len(net)].deleteReason = <<"x">>
    /\ ~myDay.deleteModal.open

\* the names of the entries of list that are not entries of other
NamesOfDifference(list, other) ==
    {ExtractNameOnly(x) : x \in SeqToSet(list) \ SeqToSet(other)}

AcceptedList(data) ==
    data.http /\ (data.shape = "array"
                    \/ (data.shape = "object" /\ data.ok /\ data.rowsIsArray))

\* C24: loadUserBookings lists the rows of a bare array and of
\* {ok: true, rows: [...]} without an error, and every other answer shows
\* the error line instead of an empty list.
C24_Original ==
    [][\A i \in 1..Len(net), data \in ListResponses :
          BookingsResponse(i, data) =>
              IF AcceptedList(data)
              THEN /\ ~myDay'.listError
                   /\ DOMAIN myDay'.bookingCards = {r.id : r \in data.rows}
              ELSE /\ myDay'.listError
                   /\ myDay'.placeholder # "none"]_vars

\* how often row occurs in list
Occurrences(list, row) == Len(SelectSeq(list, LAMBDA r : r = row))

\* the date bucket of a row: today 0, tomorrow 1, any other or no date 2
BucketOf(row) ==
    CASE row.date = TodayKey -> 0
      [] row.date = TodayKey + 1 -> 1
      [] OTHER -> 2

\* row a is not behind row b by date bucket, then minutes of From Time
InOrder(a, b) ==
    \/ BucketOf(a) < BucketOf(b)
    \/ /\ BucketOf(a) = BucketOf(b)
       /\ MyDayParseTimeToMinutes(a.from) <= MyDayParseTimeToMinutes(b.from)

\* C25: sortBookingsByTime returns a permutation of its input ordered by
\* date bucket (today 0, tomorrow 1, other 2) and within a bucket by the
\* minutes of From Time ascending; a missing or unparseable From Time
\* counts 999999 and so stands behind every parsed time of its bucket.
C25_SortedPermutation ==
    call.fn = "sortBookingsByTime" =>
        LET in == call.input
            out == call.output.sorted
        IN  /\ Len(out) = Len(in)
            /\ \A row \in SortRows : Occurrences(out, row) = Occurrences(in, row)
            /\ \A i \in 1..Len(out), j \in 1..Len(out) :
                  i < j => InOrder(out[i], out[j])
            /\ \A i \in 1..Len(out) :
                  out[i].from \in {<<>>, TextSoon} =>
                      /\ MyDayParseTimeToMinutes(out[i].from) = 999999
                      /\ \A j \in 1..Len(out) :
                            (j > i /\ BucketOf(out[j]) = BucketOf(out[i])) =>
                                MyDayParseTimeToMinutes(out[j].from) = 999999

C25_Witness ==
    /\ call.fn = "sortBookingsByTime"
    /\ [i \in 1..Len(call.input) |-> call.input[i].id] = <<"B6", "B5", "B4">>
    /\ [i \in 1..Len(call.output.sorted) |-> call.output.sorted[i].id]
           = <<"B4", "B5", "B6">>

\* the rows of list that sort equal to row
SameKey(list, row) ==
    SelectSeq(list, LAMBDA r :
        /\ BucketOf(r) = BucketOf(row)
        /\ MyDayParseTimeToMinutes(r.from) = MyDayParseTimeToMinutes(row.from))

\* C26: sorting a sorted list changes nothing, and the rows of equal date
\* bucket and start minutes keep the order they had in the input.
C26_IdempotentStable ==
    call.fn = "sortBookingsByTime" =>
        /\ call.output.again = call.output.sorted
        /\ \A row \in SortRows :
              SameKey(call.output.sorted, row) = SameKey(call.input, row)

C26_Witness ==
    /\ call.fn = "sortBookingsByTime"
    /\ [i \in 1..Len(call.input) |-> call.input[i].id] = <<"B2", "B4", "B1">>
    /\ [i \in 1..Len(call.output.sorted) |-> call.output.sorted[i].id]
           = <<"B4", "B2", "B1">>
    /\ call.output.again = call.output.sorted

\* C27: in both files parseTimeToMinutes gives HH * 60 + MM for the 12-hour
\* form with or without minutes (12 am is 0, 12 pm is 720), for the text
\* with tHH:MM: once lower-cased and for the date text with HH:MM:SS, so
\* the three writings of 16:00 all give 960; for any other text it returns
\* a number, 999999 when nothing of the text is read as a time.
C27_ThreeEncodings ==
    call.fn = "parseTimeToMinutes" =>
        LET text == call.output.text
            minutes == call.output.minutes
        IN  /\ text \in {Text4pm, Text4pmShort, Text1600Iso, Text1600Date} =>
                  minutes = 16 * 60
            /\ text = Text12am => minutes = 0
            /\ text = Text12pm => minutes = 720
            /\ text = Text930am => minutes = 9 * 60 + 30
            /\ minutes \in Nat
            /\ text \in {<<>>, TextSoon} => minutes = 999999

C27_Witness ==
    /\ call.fn = "parseTimeToMinutes"
    /\ call.output.file = "attendance.js"
    /\ call.output.text = Text1600Date
    /\ call.output.minutes = 960

\* the minutes since midnight of a clock reading hours * 100 + minutes
MinutesOfClock(t) == (t \div 100) * 60 + (t % 100)

\* now rounded up to a 30-minute boundary, a reading on a boundary being
\* its own boundary; 1440 is the midnight that ends the day
CeilBoundary(now) == ((MinutesOfClock(now) + 29) \div 30) * 30

\* the first 30-minute boundary after now
NextBoundary(now) == ((MinutesOfClock(now) \div 30) + 1) * 30

\* the grid times that are not before the boundary
NotBefore(boundary) == {t \in AllTimes : MinutesOfClock(t) >= boundary}

\* C28: when today is chosen the times offered are exactly the grid times
\* that are not before now rounded up to the next 30-minute boundary,
\* under either reading of the boundary of a clock that reads a full or a
\* half hour.
C28_Original ==
    [][\A now \in ClockTimes :
          SelectDate(0, now) =>
              dom'.timeOptions \in {NotBefore(CeilBoundary(now)),
                                    NotBefore(NextBoundary(now))}]_vars

\* C29: whatever the callers of getConfig and loadConfig and their
\* interleaving, at most one request to /api/config is answered with the
\* configuration, and a call that finds the configuration loaded makes no
\* request.
C29_Original ==
    /\ config.successful <= 1
    /\ config.lastCall.cached => ~config.lastCall.fetched

\* the login the last step answered was ok and came with a user
LoginAccepted(event) ==
    /\ event.type = "loginResult"
    /\ event.result.kind = "object"
    /\ event.result.ok
    /\ event.result.user # <<>>

\* C30: a login answered ok with a user stores the email, name and role of
\* that user; a login answered otherwise leaves the stored session as it
\* was; logout removes it; no other step touches it; and a stored record
\* has the fields email, name and role only, none of them a password or
\* its hash.
C30_SessionStored ==
    [][
        /\ LoginAccepted(lastEvent') =>
              LET user == lastEvent'.result.user[1]
              IN  localStorage'.cf_user =
                      <<[email |-> user.email, name |-> user.name,
                         role |-> user.role]>>
        /\ lastEvent'.type = "logout" => localStorage'.cf_user = <<>>
        /\ (~LoginAccepted(lastEvent') /\ lastEvent'.type # "logout") =>
              localStorage'.cf_user = localStorage.cf_user
        /\ \A k \in 1..Len(localStorage'.cf_user) :
              LET stored == localStorage'.cf_user[k]
              IN  /\ DOMAIN stored = {"email", "name", "role"}
                  /\ \A f \in DOMAIN stored :
                        stored[f] \notin LoginPasswords
                            \cup {u.password_hash : u \in ServerUsers}
    ]_vars

C30_Witness ==
    /\ LoginAccepted(lastEvent)
    /\ lastEvent.result.user[1].password_hash = "hash-r"
    /\ localStorage.cf_user =
           <<[email |-> "ravi@cf.in", name |-> "Ravi", role |-> "dop"]>>
    /\ Len(net) = 1

\* entry, trimmed and lower-cased, is name or begins with name and " -" or
\* with name and a space
EntryMatches(entry, name) ==
    LET e == ToLowerCase(Trim(entry))
        n == ToLowerCase(Trim(name))
        follows(k) == Len(e) >= Len(n) + k /\ \A j \in 1..Len(n) : e[j] = n[j]
    IN  \/ e = n
        \/ follows(2) /\ e[Len(n) + 1] = " " /\ e[Len(n) + 2] = "-"
        \/ follows(1) /\ e[Len(n) + 1] = " "

\* C31 as claimed: the user is found in the roster exactly when an entry,
\* trimmed and lower-cased, equals the user's name or begins with the name
\* followed by " -" or by a space.
C31_Original ==
    call.fn = "isInList" =>
        (call.output.isInList <=>
            \E k \in 1..Len(call.input) :
                EntryMatches(call.input[k], call.output.user))

\* C31 as amended: for a user whose trimmed name is not empty the user is
\* found in the roster exactly when an entry, trimmed and lower-cased,
\* equals the name or begins with the name followed by " -" or by a space,
\* so "Asha - C" matches user "asha" and "Asha2 - C" does not; a user
\* without a name is found in no roster.
C31_NameMatch ==
    call.fn = "isInList" =>
        IF Trim(call.output.user) = <<>>
        THEN ~call.output.isInList
        ELSE /\ call.output.isInList <=>
                    \E k \in 1..Len(call.input) :
                        EntryMatches(call.input[k], call.output.user)
             /\ (call.input = <<Asha2Creator>>
                    /\ call.output.user = <<"a", "s", "h", "a", " ">>)
                    => ~call.output.isInList
             /\ (call.input = <<AshaCreator>>
                    /\ call.output.user = <<"a", "s", "h", "a", " ">>)
                    => call.output.isInList

\* "Asha - C" behind "Asha2 - C" was matched with the user "asha "
C31_Witness ==
    /\ call.fn = "isInList"
    /\ call.input = <<Asha2Creator, AshaCreator>>
    /\ call.output.user = <<"a", "s", "h", "a", " ">>
    /\ call.output.isInList

\* the text holds the substring "DOP"
IsDopEntry(name) == Includes(name, <<"D", "O", "P">>)

\* C32: the roster a lock holds is partitioned: every entry with "DOP" is
\* in the DOP list only, every other entry in the cast list only, and the
\* two lists are disjoint.
C32_Original ==
    bookingState.isLocked =>
        LET dops == SeqToSet(bookingState.dopList)
            cast == SeqToSet(bookingState.castList)
        IN  /\ \A name \in dops : IsDopEntry(name)
            /\ \A name \in cast : ~IsDopEntry(name)
            /\ dops \cap cast = {}

\* the request asks for the date and times that bs has selected
SameSlot(request, bs) ==
    /\ request.dateKey = bs.selectedDateKey
    /\ request.fromTime = bs.fromTime
    /\ request.toTime = bs.toTime

\* C33: a step that enters Locked answers a booking_lock request for the
\* date and times selected at that moment; as every later change of date
\* or time unlocks, the roster held in Locked is then always the one of
\* the selected slot.
C33_Original ==
    [][lastEvent'.type = "lockOk" =>
          \E i \in LockRequests :
              /\ net' = RemoveAt(net, i)
              /\ SameSlot(net[i], bookingState')]_vars

\* a booking_submit has succeeded and no lock was acquired since: only a
\* roster response sets isLocked and it arms the inactivity timer with it,
\* resetLock clears both, and a successful submit clears the timer alone
SubmittedUnderLock ==
    bookingState.isLocked /\ employeeSelectionTimeout = NULL

\* C34: after a booking_submit has succeeded no further booking_submit is
\* sent until a new lock has been acquired, the time the success message
\* is shown included.
C34_Original ==
    [][lastEvent'.type = "submitSent" => ~SubmittedUnderLock]_vars

\* C35: the inactivity timer never reloads the page while a booking_submit
\* request is in flight.
C35_Original ==
    [][lastEvent'.type = "inactivityReload" => SubmitRequests = {}]_vars

\* a lock acquired after the last successful submit: the submit cleared the
\* inactivity timer and only a later roster response arms it again
LockedAfterSubmit ==
    bookingState.isLocked /\ employeeSelectionTimeout # NULL

\* C36: the delayed form reset of a successful submit resets only the
\* submitted draft: a lock acquired after that submit succeeded, and the
\* date and times it was taken for, survive the reset.
C36_Original ==
    [][(lastEvent'.type = "resetForm" /\ LockedAfterSubmit) =>
          /\ bookingState'.isLocked
          /\ bookingState'.selectedDateKey = bookingState.selectedDateKey
          /\ bookingState'.fromTime = bookingState.fromTime
          /\ bookingState'.toTime = bookingState.toTime]_vars

\* C37: the edit state Update works from belongs to the booking whose edit
\* dialog is open: the roster response of a cancelled or superseded edit
\* never becomes the state an update_booking request is computed from.
C37_Original ==
    [][lastEvent'.type = "updateSent" =>
          myDay.editState.bookingId = myDay.editModal.bookingId]_vars

\* C38: while the workflow is Locked or a submit is in flight, the only
\* page reload pending is the inactivity timer of the current lock: the
\* reload scheduled by an earlier conflict answer is no longer pending.
C38_Original ==
    (bookingState.isLocked \/ SubmitRequests # {}) =>
        /\ ConflictTimers(timers) = {}
        /\ \A t \in InactivityTimers(timers) : t.id = employeeSelectionTimeout

\* C39: in every update_booking request removeUsers and addUsers are
\* disjoint: nobody is removed from and added to a booking at once.
C39_Original ==
    \A i \in 1..Len(net) :
        net[i].action = "update_booking" =>
            SeqToSet(net[i].removeUsers) \cap SeqToSet(net[i].addUsers) = {}

\* C40: at most one inactivity timer is pending at any time and
\* employeeSelectionTimeout is null exactly when none is armed, else it is
\* the handle of the armed one; a successful submit and resetLock (a date
\* or time change while locked, the form reset) leave none pending.
C40_OneInactivityTimer ==
    /\ Cardinality(InactivityTimers(timers)) <= 1
    /\ (employeeSelectionTimeout = NULL) <=> (InactivityTimers(timers) = {})
    /\ \A t \in InactivityTimers(timers) : t.id = employeeSelectionTimeout
    /\ lastEvent.type \in {"submitOk", "resetForm"} =>
           InactivityTimers(timers) = {}
    /\ (lastEvent.type \in DateTimeChanges /\ lastEvent.wasLocked) =>
           InactivityTimers(timers) = {}

\* a roster response locks the page again while it was locked: the timer
\* of the previous lock is gone and the one of the new lock is armed
C40_Witness ==
    /\ lastEvent.type = "lockOk"
    /\ lastEvent.wasLocked
    /\ Cardinality(InactivityTimers(timers)) = 1
    /\ ResetTimers(timers) = {}
    /\ employeeSelectionTimeout # NULL

====
